---- MODULE Spec2Model ----
(***************************************************************************)
(* Doodle Digger: the traversal of the four-level picture menu             *)
(* (collections, picture classes, pictures, presets) in main, the name     *)
(* sanitizer, the folder organizer and the composite writer of             *)
(* src/src/doodle-digger.ts.                                               *)
(*                                                                         *)
(* Strings are sequences of one-character strings, paths are sequences of  *)
(* path segments.                                                          *)
(***************************************************************************)
EXTENDS Integers, Sequences, FiniteSets, TLC

(***************************************************************************)
(* Bounds of the model.                                                    *)
(***************************************************************************)
MaxCol == 2
MaxCls == 2
MaxPic == 2
MaxPre == 2
MaxLay == 3
MaxTextLen == 3
MaxMaxLength == 3
MaxUrlLen == 6
MaxPixels == 3
AlphaMax == 2
MaxColor == 1

(***************************************************************************)
(* Characters and strings.                                                 *)
(***************************************************************************)
UpperCase == <<"A","B","C","D","E","F","G","H","I","J","K","L","M",
               "N","O","P","Q","R","S","T","U","V","W","X","Y","Z">>
LowerCase == <<"a","b","c","d","e","f","g","h","i","j","k","l","m",
               "n","o","p","q","r","s","t","u","v","w","x","y","z">>
Digits == <<"0","1","2","3","4","5","6","7","8","9">>

Range(s) == {s[i] : i \in DOMAIN s}

\* the characters the regular-expression class \s matches
WhiteSpace == {" ", "\t", "\n"}

\* String.prototype.toLowerCase, one character
toLowerChar(ch) ==
    IF \E i \in DOMAIN UpperCase : UpperCase[i] = ch
    THEN LowerCase[CHOOSE i \in DOMAIN UpperCase : UpperCase[i] = ch]
    ELSE ch

toLowerCase(s) == [i \in DOMAIN s |-> toLowerChar(s[i])]

\* the class [a-z0-9\s-] of the first replace of cleanTextForPath
KeptChar(ch) == ch \in Range(LowerCase) \cup Range(Digits) \cup WhiteSpace \cup {"-"}

\* .replace(/[^a-z0-9\s-]/g, "")
stripDisallowed(s) == SelectSeq(s, KeptChar)

\* .replace(/\s+/g, "_"): every maximal run of white space becomes one "_"
RECURSIVE collapseWhiteSpace(_)
collapseWhiteSpace(s) ==
    IF s = <<>> THEN <<>>
    ELSE IF Head(s) \in WhiteSpace
         THEN IF Len(s) > 1 /\ s[2] \in WhiteSpace
              THEN collapseWhiteSpace(Tail(s))
              ELSE <<"_">> \o collapseWhiteSpace(Tail(s))
         ELSE <<Head(s)>> \o collapseWhiteSpace(Tail(s))

\* .substring(0, n)
substring0(s, n) == SubSeq(s, 1, IF n < Len(s) THEN n ELSE Len(s))

\* String.prototype.trim
RECURSIVE trimStart(_)
trimStart(s) ==
    IF s # <<>> /\ Head(s) \in WhiteSpace THEN trimStart(Tail(s)) ELSE s

RECURSIVE trimEnd(_)
trimEnd(s) ==
    IF s # <<>> /\ s[Len(s)] \in WhiteSpace
    THEN trimEnd(SubSeq(s, 1, Len(s) - 1)) ELSE s

trim(s) == trimEnd(trimStart(s))

\* template-literal conversion of a non-negative integer to decimal digits
RECURSIVE numberToString(_)
numberToString(n) ==
    IF n < 10 THEN <<Digits[n + 1]>>
    ELSE numberToString(n \div 10) \o <<Digits[(n % 10) + 1]>>

Unknown == <<"u","n","k","n","o","w","n">>

(***************************************************************************)
(* cleanTextForPath and extractTextWithFallback.                           *)
(***************************************************************************)
\* a sanitizer that forgets the truncation
cleanTextForPathNoCut(text, maxLength) ==
    IF text = <<>> \/ trim(text) = <<>> THEN Unknown
    ELSE collapseWhiteSpace(stripDisallowed(toLowerCase(text)))

\* a sanitizer that keeps underscores in the first replace
cleanTextForPathKeepUnderscore(text, maxLength) ==
    IF text = <<>> \/ trim(text) = <<>> THEN Unknown
    ELSE substring0(
           collapseWhiteSpace(
             SelectSeq(toLowerCase(text), LAMBDA ch : KeptChar(ch) \/ ch = "_")),
           maxLength)

cleanTextForPath(text, maxLength) ==
    IF text = <<>> \/ trim(text) = <<>> THEN Unknown
    ELSE substring0(collapseWhiteSpace(stripDisallowed(toLowerCase(text))),
                    maxLength)

\* the value of element.textContent(): null, or a string
NullText == [null |-> TRUE, s |-> <<>>]
Text(s) == [null |-> FALSE, s |-> s]

\* a test that lets every src pass
truthyAlways(src) == TRUE

\* `if (src)`, `filterInfo ? ... : ...`: neither null or undefined nor the
\* empty string
truthy(src) == ~src.null /\ src.s # <<>>

extractTextWithFallback(textContent, fallbackName, maxLength) ==
    IF ~textContent.null /\ trim(textContent.s) # <<>>
    THEN cleanTextForPath(textContent.s, maxLength)
    ELSE fallbackName

(***************************************************************************)
(* Paths and the file system.                                              *)
(***************************************************************************)
Dot == <<".">>
Images == <<"i","m","a","g","e","s">>
JpgExt == <<".","j","p","g">>

\* "./images"
DOWNLOADS_DIR == <<Dot, Images>>

\* path.join: the segments are joined and normalized, which drops empty
\* segments and "." segments
pathJoin(segments) ==
    LET kept == SelectSeq(segments, LAMBDA g : g # <<>> /\ g # Dot)
    IN  IF kept = <<>> THEN <<Dot>> ELSE kept

\* path.basename
pathBasename(p) == p[Len(p)]

\* fs.existsSync
existsSync(p, ds, fls) == p \in ds \/ p \in DOMAIN fls

\* fs.mkdirSync(p, { recursive: true }): p and all its ancestors
mkdirRecursive(p, ds) == ds \cup {SubSeq(p, 1, n) : n \in 1..Len(p)}

\* a folder organizer that creates without looking
createFolderStructureAlways(collectionName, pictureClassName, pictureName, ds, fls) ==
    LET basePictureFolder ==
            pathJoin(DOWNLOADS_DIR \o <<collectionName, pictureClassName, pictureName>>)
    IN  [path |-> basePictureFolder, mkdir |-> TRUE,
         dirs |-> mkdirRecursive(basePictureFolder, ds)]

\* createFolderStructure: the folder path, whether mkdirSync is called, and
\* the directories afterwards
createFolderStructure(collectionName, pictureClassName, pictureName, ds, fls) ==
    LET basePictureFolder ==
            pathJoin(DOWNLOADS_DIR \o <<collectionName, pictureClassName, pictureName>>)
        create == ~existsSync(basePictureFolder, ds, fls)
    IN  [path |-> basePictureFolder, mkdir |-> create,
         dirs |-> IF create THEN mkdirRecursive(basePictureFolder, ds) ELSE ds]

\* `${pictureName}_${presetNumber}.jpg` under outputFolder
finalPath(outputFolder, presetNumber) ==
    outputFolder \o
      << pathBasename(outputFolder) \o <<"_">> \o numberToString(presetNumber) \o JpgExt >>

(***************************************************************************)
(* Layers, buffers and the composite.                                      *)
(***************************************************************************)
LayerKinds ==
    {"raw", "filtered", "nosrc", "badheader", "truncated",
     "styled", "backdrop", "blankfilter"}

\* an image is one row of pixels; a pixel has a colour c and an opacity a out
\* of AlphaMax (0 is transparent, AlphaMax is opaque)
PixelValues == [c : 0..MaxColor, a : 0..AlphaMax]
Transparent == [c |-> 0, a |-> 0]

\* the picture a layer resource holds: one half-transparent pixel, coloured
\* after the position of the layer
LayerPixels(ref) == << [c |-> ref[Len(ref)] % (MaxColor + 1), a |-> 1] >>

\* the bytes the resource of a layer holds
resourceBytes(ref) ==
    [format |-> "source", of |-> ref, pixels |-> LayerPixels(ref), damage |-> "none"]

\* downloadImageToBuffer: the bytes of the resource, read back from the
\* transient file
downloadImageToBuffer(ref) == resourceBytes(ref)

\* applyCSSFilterToImage: the resource drawn through the filter and exported
\* as PNG
applyCSSFilterToImage(ref) ==
    [format |-> "png", of |-> ref, pixels |-> LayerPixels(ref), damage |-> "none"]

\* a decoded pixel: premultiplied colour p and opacity a, both over d
decodePixel(px) == [p |-> px.c * px.a, a |-> px.a, d |-> AlphaMax]

\* blend: "over" of one pixel: the source pixel over the canvas pixel
over(src, dst) ==
    [p |-> src.c * src.a * dst.d + dst.p * (AlphaMax - src.a),
     a |-> src.a * dst.d + dst.a * (AlphaMax - src.a),
     d |-> dst.d * AlphaMax]

\* one overlay { input, top, left, blend: "over" } laid on the canvas; where
\* the overlay has no pixel the canvas shows through
compositeOne(canvas, overlay) ==
    [j \in 1..Len(canvas) |->
        over(IF j - overlay.left \in 1..Len(overlay.input.pixels)
             THEN overlay.input.pixels[j - overlay.left] ELSE Transparent,
             canvas[j])]

RECURSIVE compositeAll(_, _)
compositeAll(canvas, overlays) ==
    IF overlays = <<>> THEN canvas
    ELSE compositeAll(compositeOne(canvas, Head(overlays)), Tail(overlays))

\* .jpeg(): no alpha channel, the canvas flattened on black
jpeg(canvas) == [j \in 1..Len(canvas) |-> [p |-> canvas[j].p, d |-> canvas[j].d]]

\* overlays taken in the opposite order
overlaysReversed(imageBuffers) ==
    [k \in 1..(Len(imageBuffers) - 1) |->
        [input |-> imageBuffers[Len(imageBuffers) + 1 - k],
         top |-> 0, left |-> 0, blend |-> "over"]]

\* imageBuffers.slice(1).map(buffer => ({ input: buffer, top: 0, left: 0,
\* blend: "over" }))
overlaysOf(imageBuffers) ==
    [k \in 1..(Len(imageBuffers) - 1) |->
        [input |-> imageBuffers[k + 1], top |-> 0, left |-> 0, blend |-> "over"]]

\* sharp(base).composite(overlays).jpeg({ quality: 100 }): rejected when an
\* input does not decode or an overlay is larger than the base; an input
\* whose header is damaged is rejected before the output is opened, one that
\* is cut short while the output is being written
sharpComposite(imageBuffers) ==
    LET base == imageBuffers[1]
        overlays == overlaysOf(imageBuffers)
        damages == {imageBuffers[k].damage : k \in 1..Len(imageBuffers)}
    IN  IF "badheader" \in damages
        THEN [format |-> "rejected", opened |-> FALSE]
        ELSE IF \E k \in 1..Len(overlays) :
                    Len(overlays[k].input.pixels) > Len(base.pixels)
        THEN [format |-> "rejected", opened |-> FALSE]
        ELSE IF "truncated" \in damages
        THEN [format |-> "rejected", opened |-> TRUE]
        ELSE [format |-> "jpeg", quality |-> 100, base |-> base,
              overlays |-> Tail(imageBuffers),
              pixels |-> jpeg(compositeAll([j \in 1..Len(base.pixels) |->
                                               decodePixel(base.pixels[j])],
                                           overlays))]

\* a composite writer that sends a single buffer through the encoder too
compositeContentAlwaysEncode(imageBuffers) == sharpComposite(imageBuffers)

\* what createCompositeFromBuffers writes at finalPath (one buffer or more)
compositeContent(imageBuffers) ==
    IF Len(imageBuffers) = 1 THEN imageBuffers[1]
    ELSE sharpComposite(imageBuffers)

(***************************************************************************)
(* The menu the page renders: collections of classes of pictures of       *)
(* presets of layers.                                                      *)
(***************************************************************************)
TextKinds == {"null", "empty", "blank", "punct", "dup", "spaced", "long"}
Levels == {"collection", "class", "picture"}

LevelLetter(level) ==
    CASE level = "collection" -> "c" [] level = "class" -> "k" [] OTHER -> "p"

LongLength == 52

\* the text a node shows: by default the letter of its level and its index
NodeText(level, idx, odd) ==
    IF odd.level = level /\ odd.idx = idx
    THEN (CASE odd.kind = "null"   -> NullText
            [] odd.kind = "empty"  -> Text(<<>>)
            [] odd.kind = "blank"  -> Text(<<" ", "\t">>)
            [] odd.kind = "punct"  -> Text(<<"!", "?">>)
            [] odd.kind = "dup"    -> Text(<<LevelLetter(level), "1", "!">>)
            [] odd.kind = "spaced" -> Text(<<" ", "A", " ", " ", "b", "_", "C">>)
            [] odd.kind = "temp"   -> Text(<<"T", "e", "m", "p">>)
            [] OTHER               -> Text([n \in 1..LongLength |-> "x"]))
    ELSE Text(<<LevelLetter(level)>> \o numberToString(idx))

NoOdd == [level |-> "none", idx |-> 0, kind |-> "none"]

(***************************************************************************)
(* The src of a layer and its size token.                                  *)
(***************************************************************************)
\* src.includes(sub)
includes(s, sub) ==
    \E k \in 0..(Len(s) - Len(sub)) : SubSeq(s, k + 1, k + Len(sub)) = sub

RECURSIVE dropDigits(_)
dropDigits(s) ==
    IF s # <<>> /\ Head(s) \in Range(Digits) THEN dropDigits(Tail(s)) ELSE s

SizeMark == <<"=", "s">>
MaxSize == <<"=", "s", "4", "0", "9", "6">>

\* a rewrite that stops after the first size token
RECURSIVE replaceSizeFirst(_)
replaceSizeFirst(s) ==
    IF s = <<>> THEN <<>>
    ELSE IF Len(s) >= 3 /\ SubSeq(s, 1, 2) = SizeMark /\ s[3] \in Range(Digits)
    THEN MaxSize \o dropDigits(SubSeq(s, 3, Len(s)))
    ELSE <<Head(s)>> \o replaceSizeFirst(Tail(s))

\* src.replace(/=s\d+/g, "=s4096"): every match, left to right, each match
\* taking all the digits that follow
RECURSIVE replaceSize(_)
replaceSize(s) ==
    IF s = <<>> THEN <<>>
    ELSE IF Len(s) >= 3 /\ SubSeq(s, 1, 2) = SizeMark /\ s[3] \in Range(Digits)
    THEN MaxSize \o replaceSize(dropDigits(SubSeq(s, 3, Len(s))))
    ELSE <<Head(s)>> \o replaceSize(Tail(s))

\* lines 246-248: the src that is acquired
rewriteSrc(src) == IF includes(src, SizeMark) THEN replaceSize(src) ELSE src

UrlAlphabet == {"=", "s", "1"}
UrlTexts == UNION {[1..n -> UrlAlphabet] : n \in 0..MaxUrlLen}
DefaultSrc == <<"u", "=", "s", "6", "4">>

(***************************************************************************)
(* The style of a layer and its filter.                                    *)
(***************************************************************************)
FilterMark == <<"f", "i", "l", "t", "e", "r", ":">>

\* [^;]+ from the head of s: everything before the first ";"
RECURSIVE untilSemicolon(_)
untilSemicolon(s) ==
    IF s = <<>> \/ Head(s) = ";" THEN <<>>
    ELSE <<Head(s)>> \o untilSemicolon(Tail(s))

\* \s*([^;]+) right after "filter:": the white space is skipped and the
\* group runs up to the next ";"; where nothing but ";" or the end follows
\* the white space, the group is the last white-space character; without
\* white space there is no match here
groupAfterMark(s) ==
    LET rest == trimStart(s)
    IN  IF rest # <<>> /\ Head(rest) # ";" THEN Text(untilSemicolon(rest))
        ELSE IF Len(rest) < Len(s) THEN Text(<< s[Len(s) - Len(rest)] >>)
        ELSE NullText

\* style.match(/filter:\s*([^;]+)/)?.[1]: the group of the leftmost match,
\* wherever in the style the text "filter:" stands
RECURSIVE styleMatch(_)
styleMatch(s) ==
    IF Len(s) < Len(FilterMark) THEN NullText
    ELSE IF SubSeq(s, 1, Len(FilterMark)) = FilterMark
              /\ ~groupAfterMark(SubSeq(s, Len(FilterMark) + 1, Len(s))).null
         THEN groupAfterMark(SubSeq(s, Len(FilterMark) + 1, Len(s)))
         ELSE styleMatch(Tail(s))

\* line 241: style?.match(/filter:\s*([^;]+)/)?.[1]?.trim()
filterInfo(style) ==
    IF style.null THEN NullText
    ELSE LET group == styleMatch(style.s)
         IN  IF group.null THEN NullText ELSE Text(trim(group.s))

\* the style attribute of the img element of each kind of layer
StyleOf(kind) ==
    CASE kind = "filtered" ->
            Text(<<"o",":","1",";"," ","f","i","l","t","e","r",":"," ","f"," ",";">>)
      [] kind = "styled" -> Text(<<"o",":","1">>)
      [] kind = "backdrop" ->
            Text(<<"b","a","c","k","d","r","o","p","-","f","i","l","t","e","r",":","b">>)
      [] kind = "blankfilter" -> Text(<<"f","i","l","t","e","r",":"," ",";">>)
      [] OTHER -> NullText

\* a layer of a previewed preset: what its img element declares (the src
\* and the style attribute) and the state of the bytes behind the src
Layer(kind, url) ==
    [src |-> IF kind = "nosrc" THEN NullText ELSE Text(url),
     style |-> StyleOf(kind),
     damage |-> IF kind \in {"badheader", "truncated"} THEN kind ELSE "none"]

MakeMenu(nCol, nCls, nPic, nPre, emptyCls, emptyPic, plan, odd, url) ==
    [c \in 1..nCol |->
      [text |-> NodeText("collection", c, odd),
       classes |-> [k \in 1..nCls |->
         [text |-> NodeText("class", k, odd),
          pictures |-> [p \in 1..(IF k = emptyCls THEN 0 ELSE nPic) |->
            [text |-> NodeText("picture", p, odd),
             presets |-> [r \in 1..(IF p = emptyPic THEN 0 ELSE nPre) |->
                            [l \in 1..Len(plan) |-> Layer(plan[l], url)]]]]]]]]

\* layer plans: all raw but one layer of another kind
Plans ==
    {[l \in 1..n |-> "raw"] : n \in 0..MaxLay} \cup
    {[l \in 1..n |-> IF l = at THEN kind ELSE "raw"] :
        n \in 1..MaxLay, at \in 1..MaxLay, kind \in LayerKinds}

\* menus of every shape, menus of every layer plan, menus with one odd text,
\* menus with every src
ShapeMenus ==
    {MakeMenu(nCol, nCls, nPic, nPre, emptyCls, emptyPic, <<"raw">>, NoOdd, DefaultSrc) :
        nCol \in 0..MaxCol, nCls \in 0..MaxCls, nPic \in 0..MaxPic,
        nPre \in 0..MaxPre, emptyCls \in 0..MaxCls, emptyPic \in 0..MaxPic}
PlanMenus ==
    {MakeMenu(1, 1, 1, nPre, 0, 0, plan, NoOdd, DefaultSrc) :
        nPre \in 1..MaxPre, plan \in Plans}
OddMenus ==
    {MakeMenu(nCol, nCls, nPic, 1, 0, 0, <<"raw">>,
              [level |-> level, idx |-> idx, kind |-> kind], DefaultSrc) :
        nCol \in 1..2, nCls \in 1..2, nPic \in 1..2,
        level \in Levels, idx \in 1..2, kind \in TextKinds}
UrlMenus ==
    {MakeMenu(1, 1, 1, 1, 0, 0, <<"raw", "filtered">>, NoOdd, url) : url \in UrlTexts}
\* a picture titled Temp, with previews of two layers
TempMenus ==
    {MakeMenu(1, 1, 1, nPre, 0, 0, <<"raw", kind>>,
              [level |-> "picture", idx |-> 1, kind |-> "temp"], DefaultSrc) :
        nPre \in 1..2, kind \in {"raw", "filtered"}}
Menus == ShapeMenus \cup PlanMenus \cup OddMenus \cup UrlMenus \cup TempMenus

(***************************************************************************)
(* State.                                                                  *)
(***************************************************************************)
VARIABLES
    menu,                  \* the menu the page renders (fixed during a run)
    authPresent,           \* fs.existsSync(PERSISTENT_CONTEXT_DIR)
    pc,                    \* position of main
    exitCode,              \* the exit status of the process, -1 while running
    depth,                 \* the view the page shows
    cursor,                \* the node open at each level, 0 for none
    collectionIndex, collectionCountResult, collectionName,
    classIndex, pictureClassCount, pictureClassName,
    pictureIndex, pictureCount, pictureName,
    presetIndex, presetCount, basePictureFolder,
    i, imageCount, processedImages,
    dirs, files,           \* directories, and the content of each file
    visited,               \* the leaves composited, in order
    backLog,               \* the back controls clicked, in order
    folderLog,             \* the calls of createFolderStructure, in order
    writeLog,              \* the artifacts written, in order
    events,                \* what the run did to the browser, the network
                           \* and the console, in order
    failure,               \* the step that failed and what was reported
    san,                   \* the sanitizer applied to one text on its own
    comp,                  \* the composite applied to buffers on their own
    twin                   \* the typed and the runtime variant side by side

inputs == <<menu, authPresent>>
page == <<depth, cursor>>
collectionVars == <<collectionIndex, collectionCountResult, collectionName>>
classVars == <<classIndex, pictureClassCount, pictureClassName>>
pictureVars == <<pictureIndex, pictureCount, pictureName>>
presetVars == <<presetIndex, presetCount, basePictureFolder>>
imageVars == <<i, imageCount, processedImages>>
disk == <<dirs, files>>
logs == <<visited, backLog, folderLog, writeLog>>
harness == <<san, comp, twin>>
vars == <<inputs, pc, exitCode, page, collectionVars, classVars, pictureVars,
          presetVars, imageVars, disk, logs, events, failure, harness>>

Depths == {"Root", "Collection", "Class", "Picture", "PresetView"}
NoCursor == [col |-> 0, cls |-> 0, pic |-> 0, pre |-> 0]
SanOff == [stage |-> "off"]
CompOff == [stage |-> "off"]
TwinOff == [stage |-> "off"]
NoFailure == [step |-> "none", caught |-> FALSE, names |-> {}]

\* maxLength of the three name extractions
CollectionMaxLength == 30
ClassMaxLength == 30
PictureMaxLength == 50

\* one entry of events
Event(kind, what, at, info) == [kind |-> kind, what |-> what, at |-> at, info |-> info]

(***************************************************************************)
(* The page: what the locators of main resolve to.                         *)
(***************************************************************************)
\* locator.nth(index), 0-based, as a position in the enumeration
\* a locator that always resolves to the first element
nthFirst(index) == 1

nth(index) == index + 1

ClassesOf(c) == menu[c].classes
PicturesOf(c, k) == ClassesOf(c)[k].pictures
PresetsOf(c, k, p) == PicturesOf(c, k)[p].presets
LayersOf(c, k, p, r) == PresetsOf(c, k, p)[r]

\* `unknown_collection_${collectionIndex + 1}` and its two siblings
UnknownPrefix(level) ==
    Unknown \o <<"_">> \o
    (CASE level = "collection" -> <<"c","o","l","l","e","c","t","i","o","n">>
       [] level = "class"      -> <<"c","l","a","s","s">>
       [] OTHER                -> <<"p","i","c","t","u","r","e">>) \o <<"_">>

fallbackNameZeroBased(level, index) == UnknownPrefix(level) \o numberToString(index)

fallbackName(level, index) == UnknownPrefix(level) \o numberToString(index + 1)

\* the three back controls: the Cancel button, the third and the second of
\* the Back buttons
\* the second of the Back buttons where the third is meant
goBackSecondButton == [control |-> "back", ordinal |-> 1]

goBackToPresetSelection == [control |-> "cancel", ordinal |-> 0]
goBackToPictureSelection == [control |-> "back", ordinal |-> 2]
goBackToPictureClassSelection == [control |-> "back", ordinal |-> 1]

\* the view a back control leads to from a view, "none" where the view
\* does not offer it
backLanding(d, ctl) ==
    CASE d = "PresetView" /\ ctl = goBackToPresetSelection -> "Picture"
      [] d = "Picture" /\ ctl = goBackToPictureSelection -> "Class"
      [] d = "Class" /\ ctl = goBackToPictureClassSelection -> "Collection"
      [] OTHER -> "none"

(***************************************************************************)
(* Initial states.                                                         *)
(***************************************************************************)
InitProgram(at) ==
    /\ pc = at /\ exitCode = -1
    /\ depth = "Root" /\ cursor = NoCursor
    /\ collectionIndex = 0 /\ collectionCountResult = 0 /\ collectionName = <<>>
    /\ classIndex = 0 /\ pictureClassCount = 0 /\ pictureClassName = <<>>
    /\ pictureIndex = 0 /\ pictureCount = 0 /\ pictureName = <<>>
    /\ presetIndex = 0 /\ presetCount = 0 /\ basePictureFolder = <<>>
    /\ i = 0 /\ imageCount = 0 /\ processedImages = <<>>
    /\ dirs = {} /\ files = <<>>
    /\ visited = <<>> /\ backLog = <<>> /\ folderLog = <<>> /\ writeLog = <<>>
    /\ events = <<>> /\ failure = NoFailure

Init ==
    /\ menu \in Menus
    /\ authPresent \in BOOLEAN
    /\ InitProgram("start")
    /\ san = SanOff
    /\ comp = CompOff
    /\ twin = TwinOff

(***************************************************************************)
(* main.                                                                   *)
(***************************************************************************)
\* the arguments of process.exit: lines 273, 507 and 513
AuthMissingStatus == 1
CompletedStatus == 0
RunErrorStatus == 1

\* a process that ends with 0 whatever happened
ExitZero(code) == pc' = "exited" /\ exitCode' = 0

Exit(code) == pc' = "exited" /\ exitCode' = code

\* lines 509-514: the catch reports error.message, closes the browser and
\* exits with 1; no error that reaches it is built by this program from the
\* names of the nodes
Caught(step) ==
    /\ Exit(RunErrorStatus)
    /\ failure' = [step |-> step, caught |-> TRUE, names |-> {}]

\* a check that lets the run go on without the session
CheckAuthenticationSkipped ==
    /\ pc = "start"
    /\ pc' = "launch"
    /\ UNCHANGED <<inputs, exitCode, page, collectionVars, classVars, pictureVars,
                   presetVars, imageVars, disk, logs, events, failure, harness>>

\* lines 268-274: the authentication check
CheckAuthentication ==
    /\ pc = "start"
    /\ IF ~authPresent
       THEN /\ Exit(AuthMissingStatus)
            /\ failure' = [step |-> "authentication", caught |-> FALSE, names |-> {}]
       ELSE pc' = "launch" /\ UNCHANGED <<exitCode, failure>>
    /\ UNCHANGED <<inputs, page, collectionVars, classVars, pictureVars,
                   presetVars, imageVars, disk, logs, events, harness>>

\* lines 276-352: launch the browser, open the profile picture dialog, count
\* the collections
OpenMenu ==
    /\ pc = "launch"
    /\ depth' = "Collection"
    /\ collectionCountResult' = Len(menu)
    /\ collectionIndex' = 0
    /\ events' = events \o << Event("launch", "browser", <<>>, <<>>),
                              Event("goto", "personal-info", <<>>, <<>>),
                              Event("click", "profilePicture", <<>>, <<>>),
                              Event("click", "change", <<>>, <<>>),
                              Event("count", "collections", <<>>, <<>>) >>
    /\ pc' = "collections"
    /\ UNCHANGED <<inputs, exitCode, cursor, collectionName, classVars,
                   pictureVars, presetVars, imageVars, disk, logs, failure, harness>>

\* lines 278-289: the launch is awaited outside the try block; its rejection
\* is a rejection nobody handles, which ends the process with 1 on a runtime
\* that throws on unhandled rejections and lets it end with 0 on one that
\* only warns
LaunchFails ==
    /\ pc = "launch"
    /\ \E code \in {0, 1} : Exit(code)
    /\ failure' = [step |-> "launch", caught |-> FALSE, names |-> {}]
    /\ UNCHANGED <<inputs, page, collectionVars, classVars, pictureVars,
                   presetVars, imageVars, disk, logs, events, harness>>

\* lines 355-377: the head of the collection loop
CollectionLoop ==
    /\ pc = "collections"
    /\ collectionIndex < collectionCountResult
    /\ depth = "Collection"
    /\ LET currentCollection == menu[nth(collectionIndex)]
           name == extractTextWithFallback(currentCollection.text,
                       fallbackName("collection", collectionIndex), CollectionMaxLength)
       IN  /\ collectionName' = name
           /\ pictureClassCount' = Len(currentCollection.classes)
           /\ events' = events \o
                 << Event("log", "collection", <<nth(collectionIndex)>>, name),
                    Event("count", "classes", <<nth(collectionIndex)>>, <<>>) >>
    /\ classIndex' = 0
    /\ pc' = "classes"
    /\ UNCHANGED <<inputs, exitCode, page, collectionIndex, collectionCountResult,
                   pictureClassName, pictureVars, presetVars, imageVars, disk,
                   logs, failure, harness>>

\* lines 505-508: all collections done
CollectionsDone ==
    /\ pc = "collections"
    /\ ~(collectionIndex < collectionCountResult)
    /\ Exit(CompletedStatus)
    /\ UNCHANGED <<inputs, page, collectionVars, classVars, pictureVars,
                   presetVars, imageVars, disk, logs, events, failure, harness>>

\* lines 380-404: the class name, the click that opens the class, the count
\* of its pictures
ClassLoop ==
    /\ pc = "classes"
    /\ classIndex < pictureClassCount
    /\ depth = "Collection"
    /\ LET c == nth(collectionIndex)
           k == nth(classIndex)
           name == extractTextWithFallback(ClassesOf(c)[k].text,
                       fallbackName("class", classIndex), ClassMaxLength)
       IN  /\ pictureClassName' = name
           /\ depth' = "Class"
           /\ cursor' = [col |-> c, cls |-> k, pic |-> 0, pre |-> 0]
           /\ pictureCount' = Len(PicturesOf(c, k))
           /\ events' = events \o << Event("log", "class", <<c, k>>, name),
                                     Event("click", "class", <<c, k>>, <<>>),
                                     Event("sleep", "settle", <<c, k>>, <<>>),
                                     Event("count", "pictures", <<c, k>>, <<>>) >>
    /\ pictureIndex' = 0
    /\ pc' = "pictures"
    /\ UNCHANGED <<inputs, exitCode, collectionVars, classIndex, pictureClassCount,
                   pictureName, presetVars, imageVars, disk, logs, failure, harness>>

\* a collection loop that never takes its next turn
ClassesDoneStuck ==
    /\ pc = "classes"
    /\ ~(classIndex < pictureClassCount)
    /\ UNCHANGED vars

\* lines 498-503: all classes of the collection done
ClassesDone ==
    /\ pc = "classes"
    /\ ~(classIndex < pictureClassCount)
    /\ collectionIndex' = collectionIndex + 1
    /\ pc' = "collections"
    /\ UNCHANGED <<inputs, exitCode, page, collectionCountResult, collectionName,
                   classVars, pictureVars, presetVars, imageVars, disk, logs,
                   events, failure, harness>>

\* lines 407-456: the click that opens the picture, its name, the count of
\* its presets, its folder
PictureLoop ==
    /\ pc = "pictures"
    /\ pictureIndex < pictureCount
    /\ depth = "Class"
    \* the name and the folder are computed once and then used
    /\ \E name \in {extractTextWithFallback(
                        PicturesOf(cursor.col, cursor.cls)[nth(pictureIndex)].text,
                        fallbackName("picture", pictureIndex), PictureMaxLength)} :
       \E folder \in {createFolderStructure(collectionName, pictureClassName,
                                            name, dirs, files)} :
       LET p == nth(pictureIndex)
           picture == PicturesOf(cursor.col, cursor.cls)[p]
       IN  /\ depth' = "Picture"
           /\ cursor' = [cursor EXCEPT !.pic = p, !.pre = 0]
           /\ pictureName' = name
           /\ presetCount' = Len(picture.presets)
           /\ basePictureFolder' = folder.path
           /\ dirs' = folder.dirs
           /\ folderLog' = Append(folderLog,
                 [args |-> <<collectionName, pictureClassName, name>>,
                  at |-> <<cursor.col, cursor.cls, p>>,
                  path |-> folder.path, mkdir |-> folder.mkdir,
                  created |-> folder.dirs \ dirs])
           /\ events' = events \o
                 << Event("click", "picture", <<cursor.col, cursor.cls, p>>, <<>>),
                    Event("sleep", "settle", <<cursor.col, cursor.cls, p>>, <<>>),
                    Event("log", "picture", <<cursor.col, cursor.cls, p>>, name),
                    Event("wait", "presetsHeading", <<cursor.col, cursor.cls, p>>, <<>>),
                    Event("count", "presets", <<cursor.col, cursor.cls, p>>, <<>>) >>
    /\ presetIndex' = 0
    /\ pc' = "presets"
    /\ UNCHANGED <<inputs, exitCode, collectionVars, classVars, pictureIndex,
                   pictureCount, imageVars, files, visited, backLog, writeLog,
                   failure, harness>>

\* one of the goBackTo functions: the control is clicked in the view the
\* page shows; where that view does not offer it the click is rejected, the
\* function rethrows and the catch of main ends the run
GoBack(ctl, at) ==
    /\ backLog' = Append(backLog, [ctl |-> ctl, from |-> depth, at |-> at])
    /\ events' = Append(events, Event("click", ctl.control, at, <<>>))
    /\ IF backLanding(depth, ctl) = "none"
       THEN Caught("back") /\ UNCHANGED depth
       ELSE depth' = backLanding(depth, ctl) /\ UNCHANGED <<exitCode, failure>>

\* a back step that is left out after a class without pictures
PicturesDoneSkipEmpty ==
    /\ pc = "pictures"
    /\ ~(pictureIndex < pictureCount)
    /\ depth = "Class"
    /\ IF pictureCount = 0
       THEN UNCHANGED <<page, backLog, events>>
       ELSE /\ depth' = backLanding(depth, goBackToPictureClassSelection)
            /\ cursor' = NoCursor
            /\ events' = Append(events,
                  Event("click", "back", <<cursor.col, cursor.cls>>, <<>>))
            /\ backLog' = Append(backLog,
                  [ctl |-> goBackToPictureClassSelection, from |-> depth,
                   at |-> <<cursor.col, cursor.cls>>])
    /\ classIndex' = classIndex + 1
    /\ pc' = "classes"
    /\ UNCHANGED <<inputs, exitCode, collectionVars, pictureClassCount,
                   pictureClassName, pictureVars, presetVars, imageVars, disk,
                   visited, folderLog, writeLog, failure, harness>>

\* lines 492-497 and 84-94: all pictures of the class done, back to the
\* classes
PicturesDone ==
    /\ pc = "pictures"
    /\ ~(pictureIndex < pictureCount)
    /\ GoBack(goBackToPictureClassSelection, <<cursor.col, cursor.cls>>)
    /\ IF backLanding(depth, goBackToPictureClassSelection) = "none"
       THEN UNCHANGED <<cursor, classIndex>>
       ELSE /\ cursor' = NoCursor
            /\ classIndex' = classIndex + 1
            /\ pc' = "classes"
    /\ UNCHANGED <<inputs, collectionVars, pictureClassCount,
                   pictureClassName, pictureVars, presetVars, imageVars, disk,
                   visited, folderLog, writeLog, harness>>

\* a click on a radio that leaves an earlier selection in place
PresetLoopKeepsSelection ==
    /\ pc = "presets"
    /\ presetIndex < presetCount
    /\ depth = "Picture"
    /\ cursor' = IF cursor.pre = 0 THEN [cursor EXCEPT !.pre = nth(presetIndex)]
                                   ELSE cursor
    /\ events' = Append(events,
          Event("click", "preset",
                <<cursor.col, cursor.cls, cursor.pic, nth(presetIndex)>>, <<>>))
    /\ pc' = "downloadPreset"
    /\ UNCHANGED <<inputs, exitCode, depth, collectionVars, classVars,
                   pictureVars, presetVars, imageVars, disk, logs, failure, harness>>

\* lines 459-470: select the preset
PresetLoop ==
    /\ pc = "presets"
    /\ presetIndex < presetCount
    /\ depth = "Picture"
    /\ cursor' = [cursor EXCEPT !.pre = nth(presetIndex)]
    /\ events' = Append(events,
          Event("click", "preset",
                <<cursor.col, cursor.cls, cursor.pic, nth(presetIndex)>>, <<>>))
    /\ pc' = "downloadPreset"
    /\ UNCHANGED <<inputs, exitCode, depth, collectionVars, classVars,
                   pictureVars, presetVars, imageVars, disk, logs, failure, harness>>

\* a picture left without the click on its Back button
PresetsDoneNoBack ==
    /\ pc = "presets"
    /\ ~(presetIndex < presetCount)
    /\ cursor' = [cursor EXCEPT !.pic = 0, !.pre = 0]
    /\ pictureIndex' = pictureIndex + 1
    /\ pc' = "pictures"
    /\ UNCHANGED <<inputs, exitCode, depth, collectionVars, classVars, pictureCount,
                   pictureName, presetVars, imageVars, disk, logs, events,
                   failure, harness>>

\* lines 486-490 and 71-81: all presets of the picture done, back to the
\* pictures
PresetsDone ==
    /\ pc = "presets"
    /\ ~(presetIndex < presetCount)
    /\ GoBack(goBackToPictureSelection, <<cursor.col, cursor.cls, cursor.pic>>)
    /\ IF backLanding(depth, goBackToPictureSelection) = "none"
       THEN UNCHANGED <<cursor, pictureIndex>>
       ELSE /\ cursor' = [cursor EXCEPT !.pic = 0, !.pre = 0]
            /\ pictureIndex' = pictureIndex + 1
            /\ pc' = "pictures"
    /\ UNCHANGED <<inputs, collectionVars, classVars, pictureCount,
                   pictureName, presetVars, imageVars, disk, visited, folderLog,
                   writeLog, harness>>

(***************************************************************************)
(* downloadPreset, downloadImageToBuffer and createCompositeFromBuffers.   *)
(***************************************************************************)
\* `temp_${index}.jpg` under basePictureFolder
tempPath(folder, index) ==
    pathJoin(folder \o << <<"t","e","m","p","_">> \o numberToString(index) \o JpgExt >>)

\* what the server sends for the src of a layer
servedBytes(ref, image) == [resourceBytes(ref) EXCEPT !.damage = image.damage]

\* a file that was opened for writing and not written to its end
PartialFile == [format |-> "partial"]

\* fs.unlink, fs.unlinkSync
unlink(fls, p) == [q \in (DOMAIN fls) \ {p} |-> fls[q]]

\* a buffer put in front of the others
unshift(images, imageBuffer) == <<imageBuffer>> \o images

\* line 252: processedImages.push(imageBuffer)
push(images, imageBuffer) == Append(images, imageBuffer)

\* the layer the image loop is at
CurrentLeaf == <<cursor.col, cursor.cls, cursor.pic, cursor.pre>>
CurrentRef == CurrentLeaf \o <<nth(i)>>
CurrentImage == LayersOf(cursor.col, cursor.cls, cursor.pic, cursor.pre)[nth(i)]

\* lines 218-234: the Next button opens the full preview, its images are
\* counted
DownloadPreset ==
    /\ pc = "downloadPreset"
    /\ depth = "Picture"
    /\ depth' = "PresetView"
    /\ imageCount' = Len(LayersOf(cursor.col, cursor.cls, cursor.pic, cursor.pre))
    /\ i' = 0
    /\ processedImages' = <<>>
    /\ events' = events \o << Event("click", "next", CurrentLeaf, <<>>),
                              Event("sleep", "settle", CurrentLeaf, <<>>),
                              Event("wait", "imageContainer", CurrentLeaf, <<>>),
                              Event("count", "images", CurrentLeaf, <<>>) >>
    /\ pc' = "images"
    /\ UNCHANGED <<inputs, exitCode, cursor, collectionVars, classVars,
                   pictureVars, presetVars, disk, logs, failure, harness>>

\* lines 235-254 and 97-116: one image of the preview: skipped without a src,
\* drawn through its filter, or its download started: the transient file is
\* opened and the request sent
ImageLoop ==
    /\ pc = "images"
    /\ i < imageCount
    /\ depth = "PresetView"
    /\ LET image == CurrentImage
           src == rewriteSrc(image.src.s)
       IN  IF ~truthy(image.src)
           THEN /\ i' = i + 1
                /\ UNCHANGED <<pc, processedImages, files, events>>
           ELSE IF truthy(filterInfo(image.style))
           THEN /\ processedImages' =
                      push(processedImages, applyCSSFilterToImage(CurrentRef))
                /\ events' = events \o
                      << Event("acquire", "filter", CurrentRef, src),
                         Event("acquired", "filter", CurrentRef, src) >>
                /\ i' = i + 1
                /\ UNCHANGED <<pc, files>>
           ELSE /\ files' = (tempPath(basePictureFolder, i) :> PartialFile) @@ files
                /\ events' = Append(events, Event("acquire", "download", CurrentRef, src))
                /\ pc' = "transfer"
                /\ UNCHANGED <<i, processedImages>>
    /\ UNCHANGED <<inputs, exitCode, page, collectionVars, classVars,
                   pictureVars, presetVars, imageCount, dirs, logs, failure, harness>>

\* lines 100-108: the response is piped into the transient file and the
\* file finishes
TransferFinish ==
    /\ pc = "transfer"
    /\ files' = (tempPath(basePictureFolder, i) :> servedBytes(CurrentRef, CurrentImage))
                    @@ files
    /\ pc' = "readBack"
    /\ UNCHANGED <<inputs, exitCode, page, collectionVars, classVars, pictureVars,
                   presetVars, imageVars, dirs, logs, events, failure, harness>>

\* lines 100-105: https.get throws on a src it cannot request, or the
\* request emits an error and its handler unlinks the transient file; either
\* way downloadImage rejects
RequestFails ==
    /\ pc = "transfer"
    /\ \E cause \in {"url", "request"} :
          /\ files' = IF cause = "request"
                      THEN unlink(files, tempPath(basePictureFolder, i))
                      ELSE files
          /\ Caught(cause)
    /\ UNCHANGED <<inputs, page, collectionVars, classVars, pictureVars,
                   presetVars, imageVars, dirs, logs, events, harness>>

\* lines 100-108: the response or the file stream emits an error; neither
\* has a handler, downloadImage never settles: the error ends the process as
\* an uncaught exception, or (a response cut short, on a runtime that emits
\* no error for it) the run waits for ever
TransferBreaks ==
    /\ pc = "transfer"
    /\ \E cause \in {"response", "write"} :
          /\ failure' = [step |-> cause, caught |-> FALSE, names |-> {}]
          /\ \/ Exit(1)
             \/ cause = "response" /\ pc' = "hung" /\ UNCHANGED exitCode
    /\ UNCHANGED <<inputs, page, collectionVars, classVars, pictureVars,
                   presetVars, imageVars, disk, logs, events, harness>>

\* lines 119-122 and 252: the transient file is read back and unlinked, the
\* buffer joins processedImages
ReadBack ==
    /\ pc = "readBack"
    /\ LET imageBuffer == files[tempPath(basePictureFolder, i)]
       IN  processedImages' = push(processedImages, imageBuffer)
    /\ files' = unlink(files, tempPath(basePictureFolder, i))
    /\ events' = Append(events,
          Event("acquired", "download", CurrentRef, rewriteSrc(CurrentImage.src.s)))
    /\ i' = i + 1
    /\ pc' = "images"
    /\ UNCHANGED <<inputs, exitCode, page, collectionVars, classVars, pictureVars,
                   presetVars, imageCount, dirs, logs, failure, harness>>

\* lines 120-121: readFileSync or unlinkSync throws
ReadBackFails ==
    /\ pc = "readBack"
    /\ \E step \in {"readFileSync", "unlinkSync"} : Caught(step)
    /\ UNCHANGED <<inputs, page, collectionVars, classVars, pictureVars,
                   presetVars, imageVars, disk, logs, events, harness>>

\* lines 256-261 and 181-209: the composite of the collected buffers is
\* written at the final path; where sharp rejects the buffers the file may
\* have been opened already
CreateCompositeFromBuffers ==
    /\ pc = "images"
    /\ ~(i < imageCount)
    /\ Len(processedImages) >= 1
    /\ LET presetNumber == presetIndex + 1
           path == finalPath(basePictureFolder, presetNumber)
           content == compositeContent(processedImages)
           call == Event("composite", "call", CurrentLeaf, <<>>)
       IN  IF content.format = "rejected"
           THEN /\ files' = IF content.opened THEN (path :> PartialFile) @@ files
                            ELSE files
                /\ events' = Append(events, call)
                /\ Caught("composite")
                /\ UNCHANGED <<writeLog, visited>>
           ELSE /\ files' = (path :> content) @@ files
                /\ writeLog' = Append(writeLog,
                      [path |-> path, content |-> content, buffers |-> processedImages,
                       names |-> <<collectionName, pictureClassName, pictureName>>,
                       at |-> CurrentLeaf])
                /\ events' = events \o << call, Event("write", "artifact", CurrentLeaf, path) >>
                /\ visited' = Append(visited, CurrentLeaf)
                /\ pc' = "cancel"
                /\ UNCHANGED <<exitCode, failure>>
    /\ UNCHANGED <<inputs, page, collectionVars, classVars, pictureVars,
                   presetVars, imageVars, dirs, backLog, folderLog, harness>>

\* line 199 with no buffer at all: sharp(undefined) takes its input from a
\* stream nobody writes, toFile never settles, or the call is rejected
CreateCompositeFromNothing ==
    /\ pc = "images"
    /\ ~(i < imageCount)
    /\ Len(processedImages) = 0
    /\ events' = Append(events, Event("composite", "call", CurrentLeaf, <<>>))
    /\ \/ pc' = "hung" /\ UNCHANGED <<exitCode, failure>>
       \/ Caught("composite")
    /\ UNCHANGED <<inputs, page, collectionVars, classVars, pictureVars,
                   presetVars, imageVars, disk, logs, harness>>

\* a Cancel after which the folder of the class is taken for that of the
\* picture
CancelPresetLeavesFolder ==
    /\ pc = "cancel"
    /\ GoBack(goBackToPresetSelection, CurrentLeaf)
    /\ IF backLanding(depth, goBackToPresetSelection) = "none"
       THEN UNCHANGED presetIndex
       ELSE /\ presetIndex' = presetIndex + 1
            /\ pc' = "presets"
    /\ basePictureFolder' = SubSeq(basePictureFolder, 1, Len(basePictureFolder) - 1)
    /\ UNCHANGED <<inputs, cursor, collectionVars, classVars,
                   pictureVars, presetCount, imageVars, disk,
                   visited, folderLog, writeLog, harness>>

\* lines 482-483 and 58-68: Cancel leads back to the presets of the picture
CancelPreset ==
    /\ pc = "cancel"
    /\ GoBack(goBackToPresetSelection, CurrentLeaf)
    /\ IF backLanding(depth, goBackToPresetSelection) = "none"
       THEN UNCHANGED presetIndex
       ELSE /\ presetIndex' = presetIndex + 1
            /\ pc' = "presets"
    /\ UNCHANGED <<inputs, cursor, collectionVars, classVars,
                   pictureVars, presetCount, basePictureFolder, imageVars, disk,
                   visited, folderLog, writeLog, harness>>

\* the awaited steps of the try block that can reject where main stands (a
\* wait that times out, a missing control, a filter that cannot be drawn, a
\* file that cannot be written)
AwaitedSteps ==
    CASE pc = "launch" -> {"goto", "openDialog", "collectionCount"}
      [] pc = "collections" /\ collectionIndex < collectionCountResult ->
            {"collectionText", "classCount"}
      [] pc = "collections" /\ ~(collectionIndex < collectionCountResult) ->
            {"close"}
      [] pc = "classes" /\ classIndex < pictureClassCount ->
            {"classText", "openClass", "pictureCount"}
      [] pc = "pictures" /\ pictureIndex < pictureCount ->
            {"openPicture", "pictureText", "presetsHeading", "presetCount", "mkdirSync"}
      [] pc = "pictures" /\ ~(pictureIndex < pictureCount) -> {"back"}
      [] pc = "presets" /\ presetIndex < presetCount -> {"selectPreset"}
      [] pc = "presets" /\ ~(presetIndex < presetCount) -> {"back"}
      [] pc = "downloadPreset" -> {"next", "imageContainer", "imageCount"}
      [] pc = "images" /\ i < imageCount ->
            {"srcAttribute"} \cup
            (IF truthy(filterInfo(CurrentImage.style)) /\ truthy(CurrentImage.src)
             THEN {"applyFilter"} ELSE {})
      [] pc = "images" /\ ~(i < imageCount) /\ Len(processedImages) >= 1 ->
            {"writeFile"}
      [] pc = "cancel" -> {"cancel"}
      [] OTHER -> {}

\* what the handler did before the step that rejects
StepPrefix(step) ==
    LET c == nth(collectionIndex)
        k == nth(classIndex)
        p == nth(pictureIndex)
    IN  CASE step = "goto" -> << Event("launch", "browser", <<>>, <<>>) >>
          [] step = "openDialog" ->
                << Event("launch", "browser", <<>>, <<>>),
                   Event("goto", "personal-info", <<>>, <<>>) >>
          [] step = "collectionCount" ->
                << Event("launch", "browser", <<>>, <<>>),
                   Event("goto", "personal-info", <<>>, <<>>),
                   Event("click", "profilePicture", <<>>, <<>>),
                   Event("click", "change", <<>>, <<>>) >>
          [] step = "classCount" ->
                << Event("log", "collection", <<c>>,
                         extractTextWithFallback(menu[c].text,
                             fallbackName("collection", collectionIndex),
                             CollectionMaxLength)) >>
          [] step \in {"openClass", "pictureCount"} ->
                << Event("log", "class", <<c, k>>,
                         extractTextWithFallback(ClassesOf(c)[k].text,
                             fallbackName("class", classIndex), ClassMaxLength)) >> \o
                (IF step = "pictureCount"
                 THEN << Event("click", "class", <<c, k>>, <<>>),
                         Event("sleep", "settle", <<c, k>>, <<>>) >>
                 ELSE <<>>)
          [] step \in {"pictureText", "presetsHeading", "presetCount", "mkdirSync"} ->
                << Event("click", "picture", <<cursor.col, cursor.cls, p>>, <<>>),
                   Event("sleep", "settle", <<cursor.col, cursor.cls, p>>, <<>>) >> \o
                (IF step = "pictureText" THEN <<>>
                 ELSE << Event("log", "picture", <<cursor.col, cursor.cls, p>>,
                               extractTextWithFallback(
                                   PicturesOf(cursor.col, cursor.cls)[p].text,
                                   fallbackName("picture", pictureIndex),
                                   PictureMaxLength)) >>) \o
                (IF step \in {"presetCount", "mkdirSync"}
                 THEN << Event("wait", "presetsHeading",
                               <<cursor.col, cursor.cls, p>>, <<>>) >>
                 ELSE <<>>) \o
                (IF step = "mkdirSync"
                 THEN << Event("count", "presets", <<cursor.col, cursor.cls, p>>, <<>>) >>
                 ELSE <<>>)
          [] step \in {"imageContainer", "imageCount"} ->
                << Event("click", "next", CurrentLeaf, <<>>),
                   Event("sleep", "settle", CurrentLeaf, <<>>) >> \o
                (IF step = "imageCount"
                 THEN << Event("wait", "imageContainer", CurrentLeaf, <<>>) >>
                 ELSE <<>>)
          [] step = "applyFilter" ->
                << Event("acquire", "filter", CurrentRef, rewriteSrc(CurrentImage.src.s)) >>
          [] step = "writeFile" -> << Event("composite", "call", CurrentLeaf, <<>>) >>
          [] OTHER -> <<>>

\* a failed step after which the run goes on with the next picture
ThrowSkipsPicture ==
    /\ \E step \in AwaitedSteps :
          /\ failure' = [step |-> step, caught |-> TRUE, names |-> {}]
          /\ events' = events \o StepPrefix(step)
          /\ IF step = "openPicture"
             THEN pictureIndex' = pictureIndex + 1 /\ UNCHANGED <<pc, exitCode>>
             ELSE Exit(RunErrorStatus) /\ UNCHANGED pictureIndex
    /\ UNCHANGED <<inputs, page, collectionVars, classVars, pictureCount, pictureName,
                   presetVars, imageVars, disk, logs, harness>>

\* lines 509-514: an awaited step of the try block rejects; the catch closes
\* the browser and exits with 1
Throw ==
    /\ \E step \in AwaitedSteps :
          /\ Caught(step)
          /\ events' = events \o StepPrefix(step)
    /\ UNCHANGED <<inputs, page, collectionVars, classVars, pictureVars,
                   presetVars, imageVars, disk, logs, harness>>

Next ==
    \/ CheckAuthentication
    \/ OpenMenu
    \/ LaunchFails
    \/ CollectionLoop
    \/ CollectionsDone
    \/ ClassLoop
    \/ ClassesDone
    \/ PictureLoop
    \/ PicturesDone
    \/ PresetLoop
    \/ PresetsDone
    \/ DownloadPreset
    \/ ImageLoop
    \/ TransferFinish
    \/ RequestFails
    \/ TransferBreaks
    \/ ReadBack
    \/ ReadBackFails
    \/ CreateCompositeFromBuffers
    \/ CreateCompositeFromNothing
    \/ CancelPreset
    \/ Throw

Spec == Init /\ [][Next]_vars

\* main is one chain of awaited steps on one event loop: a step that can be
\* taken is taken in the end
\* the menus of every shape with the first class or the first picture empty
\* or none, and the menus of every layer plan
LiveMenus ==
    {MakeMenu(nCol, nCls, nPic, nPre, emptyCls, emptyPic, <<"raw">>, NoOdd, DefaultSrc) :
        nCol \in 0..MaxCol, nCls \in 0..MaxCls, nPic \in 0..MaxPic,
        nPre \in 0..MaxPre, emptyCls \in 0..1, emptyPic \in 0..1}
InitLive ==
    /\ menu \in LiveMenus \cup PlanMenus
    /\ authPresent \in BOOLEAN
    /\ InitProgram("start")
    /\ san = SanOff
    /\ comp = CompOff
    /\ twin = TwinOff

SpecLive == InitLive /\ [][Next]_vars /\ WF_vars(Next)

(***************************************************************************)
(* The sanitizer on its own: cleanTextForPath and extractTextWithFallback  *)
(* applied to one text, and cleanTextForPath applied to its own result.    *)
(***************************************************************************)
SanAlphabet == {"a", "B", "1", " ", "-", "_", "!"}
SanTexts == UNION {[1..n -> SanAlphabet] : n \in 0..MaxTextLen}

InitSan ==
    /\ menu = <<>>
    /\ authPresent = FALSE
    /\ InitProgram("off")
    /\ \E t \in {NullText} \cup {Text(x) : x \in SanTexts},
          m \in 0..MaxMaxLength, level \in Levels :
         san = [stage |-> "input", text |-> t, maxLength |-> m,
                fallback |-> fallbackName(level, 0),
                out |-> <<>>, again |-> <<>>]
    /\ comp = CompOff
    /\ twin = TwinOff

program == <<inputs, pc, exitCode, page, collectionVars, classVars, pictureVars,
             presetVars, imageVars, disk, logs, events, failure>>

\* cleanTextForPath(text, maxLength) on a string
CleanOnce ==
    /\ san.stage = "input"
    /\ ~san.text.null
    /\ san' = [san EXCEPT !.stage = "cleaned",
                          !.out = cleanTextForPath(san.text.s, san.maxLength)]
    /\ UNCHANGED <<program, comp, twin>>

\* cleanTextForPath on its own result, with the same maxLength
CleanAgain ==
    /\ san.stage = "cleaned"
    /\ san' = [san EXCEPT !.stage = "recleaned",
                          !.again = cleanTextForPath(san.out, san.maxLength)]
    /\ UNCHANGED <<program, comp, twin>>

\* extractTextWithFallback on the text content of an element
Extract ==
    /\ san.stage = "input"
    /\ san' = [san EXCEPT !.stage = "extracted",
                          !.out = extractTextWithFallback(san.text, san.fallback,
                                                          san.maxLength)]
    /\ UNCHANGED <<program, comp, twin>>

NextSan == CleanOnce \/ CleanAgain \/ Extract

SpecSan == InitSan /\ [][NextSan]_vars

(***************************************************************************)
(* The composite on its own: createCompositeFromBuffers applied to two or  *)
(* more buffers, and to the same buffers in the opposite order.            *)
(***************************************************************************)
RECURSIVE Sum(_)
Sum(sh) == IF sh = <<>> THEN 0 ELSE Head(sh) + Sum(Tail(sh))

\* the lengths of two or more images of MaxPixels pixels together at most
CompShapes ==
    {sh \in UNION {[1..n -> 1..MaxPixels] : n \in 2..MaxPixels} : Sum(sh) <= MaxPixels}

\* buffers of the lengths sh, their pixels taken from flat in order
CutBuffers(flat, sh) ==
    [k \in 1..Len(sh) |->
        [format |-> "source", of |-> <<k>>, damage |-> "none",
         pixels |-> SubSeq(flat, Sum(SubSeq(sh, 1, k - 1)) + 1, Sum(SubSeq(sh, 1, k)))]]

Reverse(s) == [k \in 1..Len(s) |-> s[Len(s) + 1 - k]]

InitComp ==
    /\ menu = <<>>
    /\ authPresent = FALSE
    /\ InitProgram("off")
    /\ san = SanOff
    /\ twin = TwinOff
    /\ \E sh \in CompShapes : \E flat \in [1..Sum(sh) -> PixelValues] :
         comp = [stage |-> "input", buffers |-> CutBuffers(flat, sh),
                 out |-> PartialFile, swapped |-> PartialFile]

\* what createCompositeFromBuffers writes for the buffers
CompositeInOrder ==
    /\ comp.stage = "input"
    /\ comp' = [comp EXCEPT !.stage = "composed",
                            !.out = compositeContent(comp.buffers)]
    /\ UNCHANGED <<program, san, twin>>

\* what it writes for the same buffers in the opposite order
CompositeSwapped ==
    /\ comp.stage = "composed"
    /\ comp' = [comp EXCEPT !.stage = "swapped",
                            !.swapped = compositeContent(Reverse(comp.buffers))]
    /\ UNCHANGED <<program, san, twin>>

NextComp == CompositeInOrder \/ CompositeSwapped

SpecComp == InitComp /\ [][NextComp]_vars

(***************************************************************************)
(* The typed variant (doodle-digger.ts) and the runtime variant (the       *)
(* JavaScript file) side by side on one page.  The two files differ in the *)
(* iframe they take for the menu and in the check of the canvas context;   *)
(* each variant selects its frame, counts the collections it finds there   *)
(* and draws a filtered layer.                                             *)
(***************************************************************************)
Variants == {"typed", "runtime"}

MaxFrames == 4

\* doodle-digger.ts line 345: newIframes[2]
typedIframeIndex == 2
\* the runtime variant, line 312: newIframes[1]
runtimeIframeIndex == 1
iframeIndex(v) == IF v = "typed" THEN typedIframeIndex ELSE runtimeIframeIndex

\* doodle-digger.ts lines 143-146: `if (!ctx) { reject(...); return; }`
typedChecksContext == TRUE
\* the runtime variant, lines 113-120: ctx is used as it comes
runtimeChecksContext == FALSE
checksContext(v) == IF v = "typed" THEN typedChecksContext ELSE runtimeChecksContext

\* the iframes of the page after the click on Change: the one that hosts
\* the picture menu, and others
FrameKinds == {"picker", "other"}
Pages == UNION {[1..n -> FrameKinds] : n \in 0..MaxFrames}

\* a variant before it took its frame
VariantStart ==
    [at |-> "frame", profileFrame |-> 0, collections |-> 0,
     outcome |-> "running", failedAt |-> "none"]

InitTwin ==
    /\ \E n \in 0..MaxCol, kind \in {"raw", "filtered"} :
          menu = MakeMenu(n, 1, 1, 1, 0, 0, <<kind>>, NoOdd, DefaultSrc)
    /\ authPresent = TRUE
    /\ InitProgram("off")
    /\ san = SanOff
    /\ comp = CompOff
    /\ \E frames \in Pages, ctx \in BOOLEAN :
          twin = [stage |-> "on", newIframes |-> frames, ctx |-> ctx,
                  run |-> [v \in Variants |-> VariantStart]]

\* `profileFrame = await newIframes[k].contentFrame()`: without a k-th
\* iframe this is a TypeError inside the try block, the catch exits with 1
SelectFrame(v) ==
    /\ twin.stage = "on"
    /\ twin.run[v].at = "frame"
    /\ LET k == nth(iframeIndex(v))
       IN  twin' = [twin EXCEPT !.run[v] =
              IF k \in DOMAIN twin.newIframes
              THEN [@ EXCEPT !.profileFrame = k, !.at = "count"]
              ELSE [@ EXCEPT !.at = "done", !.outcome = "exit1",
                             !.failedAt = "frame"]]
    /\ UNCHANGED <<program, san, comp>>

\* `profileFrame.locator("section.u4mwyd").count()`: the collections of the
\* menu in the frame that hosts it, none in another frame; without a
\* collection the loops have nothing to do and the run exits with 0
CountCollections(v) ==
    /\ twin.stage = "on"
    /\ twin.run[v].at = "count"
    /\ LET found == IF twin.newIframes[twin.run[v].profileFrame] = "picker"
                    THEN Len(menu) ELSE 0
           filtered == \E c \in 1..found :
                          truthy(filterInfo(LayersOf(c, 1, 1, 1)[1].style))
       IN  twin' = [twin EXCEPT !.run[v] =
              IF filtered
              THEN [@ EXCEPT !.collections = found, !.at = "filter"]
              ELSE [@ EXCEPT !.collections = found, !.at = "done",
                             !.outcome = "exit0"]]
    /\ UNCHANGED <<program, san, comp>>

\* applyCSSFilterToImage on a page whose canvas gives no context: the typed
\* variant rejects and the catch exits with 1; in the runtime variant
\* ctx.clearRect throws inside the onload handler, the promise of
\* page.evaluate never settles
ApplyFilter(v) ==
    /\ twin.stage = "on"
    /\ twin.run[v].at = "filter"
    /\ twin' = [twin EXCEPT !.run[v] =
          IF twin.ctx
          THEN [@ EXCEPT !.at = "done", !.outcome = "exit0"]
          ELSE IF checksContext(v)
          THEN [@ EXCEPT !.at = "done", !.outcome = "exit1", !.failedAt = "filter"]
          ELSE [@ EXCEPT !.at = "done", !.outcome = "hung"]]
    /\ UNCHANGED <<program, san, comp>>

NextTwin ==
    \E v \in Variants :
       \/ SelectFrame(v)
       \/ CountCollections(v)
       \/ ApplyFilter(v)

SpecTwin == InitTwin /\ [][NextTwin]_vars

(***************************************************************************)
(* What the menu lets one expect: its leaves, pictures and classes in      *)
(* depth-first order.                                                      *)
(***************************************************************************)
RECURSIVE Concat(_, _)
Concat(f, n) == IF n = 0 THEN <<>> ELSE Concat(f, n - 1) \o f[n]

LeavesOfPicture(c, k, p) == [r \in 1..Len(PresetsOf(c, k, p)) |-> <<c, k, p, r>>]
LeavesOfClass(c, k) ==
    Concat([p \in 1..Len(PicturesOf(c, k)) |-> LeavesOfPicture(c, k, p)],
           Len(PicturesOf(c, k)))
LeavesOfCollection(c) ==
    Concat([k \in 1..Len(ClassesOf(c)) |-> LeavesOfClass(c, k)], Len(ClassesOf(c)))
LeafSeq == Concat([c \in 1..Len(menu) |-> LeavesOfCollection(c)], Len(menu))

PicturesOfClassSeq(c, k) == [p \in 1..Len(PicturesOf(c, k)) |-> <<c, k, p>>]
PicturesOfCollectionSeq(c) ==
    Concat([k \in 1..Len(ClassesOf(c)) |-> PicturesOfClassSeq(c, k)],
           Len(ClassesOf(c)))
PictureSeq == Concat([c \in 1..Len(menu) |-> PicturesOfCollectionSeq(c)], Len(menu))

ClassSeq ==
    Concat([c \in 1..Len(menu) |-> [k \in 1..Len(ClassesOf(c)) |-> <<c, k>>]],
           Len(menu))

IsPrefix(a, b) == Len(a) <= Len(b) /\ SubSeq(b, 1, Len(a)) = a

\* the run reached the end of the try block (lines 505-508)
Completed == pc = "exited" /\ exitCode = CompletedStatus /\ failure = NoFailure

\* the places where one back control was clicked, in order
BacksAt(ctl) ==
    LET hits == SelectSeq(backLog, LAMBDA e : e.ctl = ctl)
    IN  [j \in DOMAIN hits |-> hits[j].at]

\* the menu of the traversal-order example: collections [c1,c2], classes
\* [k1], pictures [p1], presets [r1,r2]
ExampleMenu == MakeMenu(2, 1, 1, 2, 0, 0, <<"raw">>, NoOdd, DefaultSrc)

(***************************************************************************)
(* C1: the leaves are composited in depth-first order of the menu, none    *)
(* twice and none skipped: at every moment the leaves visited so far are   *)
(* the first leaves of the depth-first enumeration, and after a run        *)
(* without failure they are all of them.                                   *)
(***************************************************************************)
C1_DepthFirstOrder ==
    /\ IsPrefix(visited, LeafSeq)
    /\ Completed => visited = LeafSeq

C1_Witness ==
    /\ Completed
    /\ menu = ExampleMenu
    /\ visited = << <<1,1,1,1>>, <<1,1,1,2>>, <<2,1,1,1>>, <<2,1,1,2>> >>

(***************************************************************************)
(* C2: Cancel is clicked once for each composited preset, right after it;  *)
(* the back to the pictures once for each picture, the back to the classes *)
(* once for each class, in order, and no other back control is clicked;    *)
(* after a run without failure that is every preset, picture and class of  *)
(* the menu, those without children included.                              *)
(***************************************************************************)
C2_BackOncePerNode ==
    /\ IsPrefix(BacksAt(goBackToPresetSelection), visited)
    /\ Len(visited) - Len(BacksAt(goBackToPresetSelection)) <= 1
    /\ IsPrefix(BacksAt(goBackToPictureSelection), PictureSeq)
    /\ IsPrefix(BacksAt(goBackToPictureClassSelection), ClassSeq)
    /\ Completed =>
         /\ BacksAt(goBackToPresetSelection) = LeafSeq
         /\ BacksAt(goBackToPictureSelection) = PictureSeq
         /\ BacksAt(goBackToPictureClassSelection) = ClassSeq
         /\ Len(backLog) = Len(LeafSeq) + Len(PictureSeq) + Len(ClassSeq)

C2_Witness ==
    /\ Completed
    /\ Len(LeafSeq) > 0
    /\ \E c \in DOMAIN menu : \E k \in DOMAIN ClassesOf(c) : PicturesOf(c, k) = <<>>
    /\ \E c \in DOMAIN menu : \E k \in DOMAIN ClassesOf(c) :
         \E p \in DOMAIN PicturesOf(c, k) : PresetsOf(c, k, p) = <<>>
    /\ Len(backLog) = Len(LeafSeq) + Len(PictureSeq) + Len(ClassSeq)

(***************************************************************************)
(* Names and paths as the documented layout spells them.                   *)
(***************************************************************************)
Underscore == <<"_">>
UnknownCollection ==
    <<"u","n","k","n","o","w","n","_","c","o","l","l","e","c","t","i","o","n","_">>
UnknownClass == <<"u","n","k","n","o","w","n","_","c","l","a","s","s","_">>
UnknownPicture == <<"u","n","k","n","o","w","n","_","p","i","c","t","u","r","e","_">>

\* a text without any character but white space, or no text at all
BlankText(t) == t.null \/ \A j \in DOMAIN t.s : t.s[j] \in WhiteSpace

\* the characters of [a-z0-9_-]
NameChars == Range(LowerCase) \cup Range(Digits) \cup {"_", "-"}

\* images/<collection>/<class>/<picture>/<picture>_<presetOrdinal>.jpg
LayoutPath(collection, class, picture, presetOrdinal) ==
    <<Images, collection, class, picture,
      picture \o Underscore \o <<Digits[presetOrdinal + 1]>> \o JpgExt>>

Last(s) == s[Len(s)]

(***************************************************************************)
(* C3: every artifact is written at                                        *)
(* images/<collection>/<class>/<picture>/<picture>_<presetOrdinal>.jpg,    *)
(* the three names being those of the leaf and presetOrdinal the 1-based   *)
(* position of the preset shown.                                           *)
(***************************************************************************)
C3_ArtifactPath ==
    \A j \in DOMAIN writeLog :
       writeLog[j].path =
          LayoutPath(writeLog[j].names[1], writeLog[j].names[2],
                     writeLog[j].names[3], writeLog[j].at[4])

\* the same for the artifacts whose three names are not empty
C3_ArtifactPathOfNamedLeaves ==
    \A j \in DOMAIN writeLog :
       (\A n \in 1..3 : writeLog[j].names[n] # <<>>) =>
          writeLog[j].path =
             LayoutPath(writeLog[j].names[1], writeLog[j].names[2],
                        writeLog[j].names[3], writeLog[j].at[4])

(***************************************************************************)
(* C4: two different leaves are never written at the same path, and after  *)
(* a run without failure there are as many files as leaves composited.     *)
(***************************************************************************)
C4_OneFilePerLeaf ==
    /\ \A a, b \in DOMAIN writeLog :
          writeLog[a].at # writeLog[b].at => writeLog[a].path # writeLog[b].path
    /\ Completed => Cardinality(DOMAIN files) = Len(visited)

\* the presets of one picture never share a path
C4_OneFilePerPresetOfAPicture ==
    \A a, b \in DOMAIN writeLog :
       /\ a # b
       /\ SubSeq(writeLog[a].at, 1, 3) = SubSeq(writeLog[b].at, 1, 3)
       => writeLog[a].path # writeLog[b].path

(***************************************************************************)
(* C5: the sanitized name has only characters of [a-z0-9_-] and at most    *)
(* maxLength of them, unless the text is missing, empty or white space     *)
(* only: then it is the fallback (the word unknown for cleanTextForPath).  *)
(***************************************************************************)
C5_SanitizedShape ==
    /\ san.stage = "extracted" =>
         IF BlankText(san.text) THEN san.out = san.fallback
         ELSE Range(san.out) \subseteq NameChars /\ Len(san.out) <= san.maxLength
    /\ san.stage = "cleaned" =>
         IF BlankText(san.text) THEN san.out = Unknown
         ELSE Range(san.out) \subseteq NameChars /\ Len(san.out) <= san.maxLength

C5_Witness ==
    /\ san.stage = "extracted"
    /\ san.text = Text(<<"B", " ", "!">>)
    /\ san.maxLength = 2
    /\ san.out = <<"b", "_">>

(***************************************************************************)
(* C6 as stated: a second pass of cleanTextForPath with the same maxLength *)
(* returns what the first pass returned.                                   *)
(***************************************************************************)
C6_Idempotent == san.stage = "recleaned" => san.again = san.out

(***************************************************************************)
(* C6 amended: the second pass removes the underscores of the first result *)
(* and cuts it to maxLength, and turns an empty first result into the word *)
(* unknown; so the two passes agree exactly when the first result is not   *)
(* empty, has no underscore and is not longer than maxLength.              *)
(***************************************************************************)
WithoutUnderscores(s) == SelectSeq(s, LAMBDA ch : ch # "_")

C6_SecondPass ==
    san.stage = "recleaned" =>
       /\ san.again = IF san.out = <<>> THEN Unknown
                      ELSE SubSeq(WithoutUnderscores(san.out), 1,
                                  IF Len(WithoutUnderscores(san.out)) < san.maxLength
                                  THEN Len(WithoutUnderscores(san.out))
                                  ELSE san.maxLength)
       /\ san.again = san.out <=>
             /\ san.out # <<>>
             /\ "_" \notin Range(san.out)
             /\ Len(san.out) <= san.maxLength

C6_Witness ==
    /\ san.stage = "recleaned"
    /\ san.text = Text(<<"a", " ", "B">>)
    /\ san.maxLength = 3
    /\ san.out = <<"a", "_", "b">>
    /\ san.again = <<"a", "b">>

(***************************************************************************)
(* C7: the three names a folder is made of are never empty.                *)
(***************************************************************************)
C7_SegmentsNonEmpty ==
    \A j \in DOMAIN folderLog : \A n \in 1..3 : folderLog[j].args[n] # <<>>

(***************************************************************************)
(* C8: a node whose text is missing, empty or white space only gets the    *)
(* fallback name of its level with its 1-based position: that name is not  *)
(* empty and is a segment of the folder path.                              *)
(***************************************************************************)
C8_FallbackNames ==
    \A j \in DOMAIN folderLog :
       LET e == folderLog[j]
           c == e.at[1]
           k == e.at[2]
           p == e.at[3]
           expect(t, prefix, ordinal, n) ==
               BlankText(t) =>
                  /\ e.args[n] = prefix \o <<Digits[ordinal + 1]>>
                  /\ e.args[n] \in Range(e.path)
       IN  /\ expect(menu[c].text, UnknownCollection, c, 1)
           /\ expect(ClassesOf(c)[k].text, UnknownClass, k, 2)
           /\ expect(PicturesOf(c, k)[p].text, UnknownPicture, p, 3)

C8_Witness ==
    /\ folderLog # <<>>
    /\ Last(folderLog).at = <<1, 1, 2>>
    /\ PicturesOf(1, 1)[2].text = Text(<<" ", "\t">>)
    /\ Last(folderLog).path =
          <<Images, <<"c","1">>, <<"k","1">>, UnknownPicture \o <<"2">> >>

(***************************************************************************)
(* C9: a second call of createFolderStructure with the same three names    *)
(* returns the same path and creates nothing; the path is the join of the  *)
(* output root and the three names.                                        *)
(***************************************************************************)
C9_EnsureFolderIdempotent ==
    /\ \A j \in DOMAIN folderLog :
          folderLog[j].path = pathJoin(DOWNLOADS_DIR \o folderLog[j].args)
    /\ \A a, b \in DOMAIN folderLog :
          a < b /\ folderLog[a].args = folderLog[b].args =>
             /\ folderLog[b].path = folderLog[a].path
             /\ ~folderLog[b].mkdir
             /\ folderLog[b].created = {}

C9_Witness ==
    /\ Len(folderLog) >= 2
    /\ folderLog[1].args = folderLog[2].args
    /\ folderLog[1].mkdir
    /\ ~folderLog[2].mkdir
    /\ folderLog[2].path \in dirs

(***************************************************************************)
(* C10: a composite of exactly one buffer leaves at the final path the     *)
(* bytes of that buffer, as the acquisition of the layer returned them.    *)
(***************************************************************************)
C10_SingleBufferVerbatim ==
    pc = "cancel" =>
       LET w == Last(writeLog)
       IN  Len(w.buffers) = 1 =>
              /\ files[w.path] = w.buffers[1]
              /\ \E l \in 1..imageCount :
                    w.buffers[1] \in
                       {servedBytes(w.at \o <<l>>,
                                    LayersOf(w.at[1], w.at[2], w.at[3], w.at[4])[l]),
                        applyCSSFilterToImage(w.at \o <<l>>)}

C10_Witness ==
    /\ pc = "cancel"
    /\ imageCount = 2
    /\ Len(Last(writeLog).buffers) = 1
    /\ files[Last(writeLog).path] = resourceBytes(<<1, 1, 1, 1, 2>>)

(***************************************************************************)
(* C11: a composite of two or more buffers is the first buffer with the    *)
(* others laid over it in their order, each from the top-left corner and   *)
(* source-over: a pixel shows every layer by its opacity times what the    *)
(* layers above it let through; and two buffers of one size give different *)
(* composites in the two orders exactly when at some pixel both have some  *)
(* opacity and their colours differ.                                       *)
(***************************************************************************)
PixelAt(buffers, k, j) ==
    IF j <= Len(buffers[k].pixels) THEN buffers[k].pixels[j] ELSE Transparent

RECURSIVE Power(_, _)
Power(b, n) == IF n = 0 THEN 1 ELSE b * Power(b, n - 1)

\* what the layers above layer k let through at pixel j
RECURSIVE LetThrough(_, _, _)
LetThrough(buffers, k, j) ==
    IF k >= Len(buffers) THEN 1
    ELSE (AlphaMax - PixelAt(buffers, k + 1, j).a) * LetThrough(buffers, k + 1, j)

\* the colour the stack of layers k.. shows at pixel j, over AlphaMax^Len
RECURSIVE StackedFrom(_, _, _)
StackedFrom(buffers, k, j) ==
    IF k > Len(buffers) THEN 0
    ELSE PixelAt(buffers, k, j).c * PixelAt(buffers, k, j).a * Power(AlphaMax, k - 1)
             * LetThrough(buffers, k, j)
         + StackedFrom(buffers, k + 1, j)

FirstIsLargest(buffers) ==
    \A k \in 2..Len(buffers) : Len(buffers[k].pixels) <= Len(buffers[1].pixels)

C11_FirstIsBase ==
    comp.stage \in {"composed", "swapped"} =>
       LET b == comp.buffers
       IN  IF FirstIsLargest(b)
           THEN /\ comp.out.format = "jpeg"
                /\ Len(comp.out.pixels) = Len(b[1].pixels)
                /\ \A j \in 1..Len(b[1].pixels) :
                      comp.out.pixels[j] =
                         [p |-> StackedFrom(b, 1, j), d |-> Power(AlphaMax, Len(b))]
           ELSE comp.out.format = "rejected"

PairOfOneSize ==
    /\ comp.stage = "swapped"
    /\ Len(comp.buffers) = 2
    /\ Len(comp.buffers[1].pixels) = Len(comp.buffers[2].pixels)

C11_SourceOverInOrder ==
    /\ C11_FirstIsBase
    /\ PairOfOneSize =>
          LET A == comp.buffers[1].pixels
              B == comp.buffers[2].pixels
          IN  (comp.out.pixels # comp.swapped.pixels) <=>
                 \E j \in 1..Len(A) : A[j].a # 0 /\ B[j].a # 0 /\ A[j].c # B[j].c

\* the claim as stated: the two orders differ whenever the two buffers differ
\* at a pixel that is not opaque in both
C11_OrderSensitive ==
    /\ C11_FirstIsBase
    /\ PairOfOneSize =>
          LET A == comp.buffers[1].pixels
              B == comp.buffers[2].pixels
          IN  (\E j \in 1..Len(A) :
                  A[j] # B[j] /\ (A[j].a < AlphaMax \/ B[j].a < AlphaMax))
              => comp.out.pixels # comp.swapped.pixels

C11_Witness ==
    /\ PairOfOneSize
    /\ comp.buffers[1].pixels[1] = [c |-> 0, a |-> 1]
    /\ comp.buffers[2].pixels[1] = [c |-> 1, a |-> 1]
    /\ comp.out.pixels # comp.swapped.pixels

(***************************************************************************)
(* C12: when the composite of a preset is called, each layer of its        *)
(* preview that has a src has been acquired exactly once and every one of  *)
(* these acquisitions has returned; the composite is called once for the   *)
(* preset, and once it has returned one artifact has been written for the  *)
(* preset and no transient file is left in the picture folder (a file of   *)
(* that name there is an artifact).                                        *)
(***************************************************************************)
LayersWithSrc(leaf) ==
    {l \in 1..Len(LayersOf(leaf[1], leaf[2], leaf[3], leaf[4])) :
        LET src == LayersOf(leaf[1], leaf[2], leaf[3], leaf[4])[l].src
        IN  ~src.null /\ src.s # <<>>}

EventsOf(kinds, leaf) ==
    {n \in 1..Len(events) :
        /\ events[n].kind \in kinds
        /\ Len(events[n].at) >= 4
        /\ SubSeq(events[n].at, 1, 4) = leaf}

RECURSIVE LastEventOf(_, _)
LastEventOf(kinds, n) ==
    IF n = 0 THEN 0
    ELSE IF events[n].kind \in kinds THEN n
    ELSE LastEventOf(kinds, n - 1)

\* Stated at the latest composite call of the log (each call is the latest
\* one in the state it is made in); the acquisitions logged after it belong
\* to the leaf under the cursor, which has not been composited yet.
C12_AcquireAllThenComposite ==
    LET n == LastEventOf({"composite"}, Len(events))
    IN  /\ n > 0 =>
             LET leaf == events[n].at
                 acquire == EventsOf({"acquire"}, leaf)
                 acquired == EventsOf({"acquired"}, leaf)
             IN  /\ EventsOf({"composite"}, leaf) = {n}
                 /\ {events[m].at[5] : m \in acquire} = LayersWithSrc(leaf)
                 /\ Cardinality(acquire) = Cardinality(LayersWithSrc(leaf))
                 /\ Cardinality(acquired) = Cardinality(LayersWithSrc(leaf))
                 /\ \A m \in acquire \cup acquired : m < n
        /\ \A m \in (n + 1)..Len(events) :
             events[m].kind \in {"acquire", "acquired"} =>
                /\ SubSeq(events[m].at, 1, 4) = CurrentLeaf
                /\ EventsOf({"composite"}, CurrentLeaf) = {}
        /\ pc = "cancel" =>
             /\ Cardinality(EventsOf({"write"}, CurrentLeaf)) = 1
             /\ Last(writeLog).at = CurrentLeaf
             /\ Last(writeLog).path \in DOMAIN files
             /\ \A l \in 0..imageCount :
                   tempPath(basePictureFolder, l) \in DOMAIN files =>
                      \E w \in 1..Len(writeLog) :
                         writeLog[w].path = tempPath(basePictureFolder, l)

C12_Witness ==
    /\ pc = "cancel"
    /\ Cardinality(LayersWithSrc(CurrentLeaf)) = 3
    /\ Cardinality(EventsOf({"acquired"}, CurrentLeaf)) = 3
    /\ EventsOf({"acquire"}, CurrentLeaf) # {}
    /\ Len(Last(writeLog).buffers) = 3

(***************************************************************************)
(* C13: when a wait for readiness at the step from a class to one of its   *)
(* pictures times out, the run ends with exit status 1; what the catch     *)
(* reports is the message of the wait, which carries no name of a node     *)
(* (the names of the collection and the class were printed before, in the  *)
(* progress lines); the pictures processed are those before the picture    *)
(* that failed, and nothing more.                                          *)
(***************************************************************************)
ClassToPictureWaits == {"openPicture", "presetsHeading"}

ProcessedPictures == [n \in 1..Len(folderLog) |-> folderLog[n].at]

NoFurtherPicture ==
    /\ pc = "exited"
    /\ IsPrefix(ProcessedPictures, PictureSeq)
    /\ Len(ProcessedPictures) < Len(PictureSeq)
    /\ PictureSeq[Len(ProcessedPictures) + 1] = <<cursor.col, cursor.cls, nth(pictureIndex)>>

Printed(level, at, name) ==
    \E n \in 1..Len(events) : events[n] = Event("log", level, at, name)

StepOfTryFailed == failure.step \notin {"none", "authentication", "launch"}

C14_ErrorEndsRun ==
    StepOfTryFailed => pc = "exited" /\ exitCode > 0

C16_NoPartialRun ==
    ~authPresent =>
       /\ events = <<>>
       /\ depth = "Root"
       /\ dirs = {} /\ files = <<>>
       /\ folderLog = <<>> /\ writeLog = <<>> /\ backLog = <<>>
       /\ pc \in {"start", "exited"}
       /\ pc = "exited" => exitCode = AuthMissingStatus /\ failure.step = "authentication"

C16_Witness ==
    /\ ~authPresent
    /\ pc = "exited"
    /\ Len(menu) >= 1
    /\ events = <<>>

(***************************************************************************)
(* C17: once a raw acquisition has ended, by returning its buffer or by    *)
(* failing, no transient file temp_<i>.jpg is in the picture folder.       *)
(***************************************************************************)
TransientFiles ==
    {path \in DOMAIN files : \E l \in 0..MaxLay : path = tempPath(basePictureFolder, l)}

C17_TransientFileRemoved ==
    pc \notin {"transfer", "readBack"} => TransientFiles = {}

(***************************************************************************)
(* C18: after a composite that failed on a buffer that does not decode, no *)
(* file is at the final path; and no artifact is written from buffers of   *)
(* which one does not decode, be it the only one.                          *)
(***************************************************************************)
Undecodable(buffers) == \E n \in 1..Len(buffers) : buffers[n].damage # "none"

C18_NoFileAfterFailedComposite ==
    /\ failure.step = "composite" /\ Undecodable(processedImages) =>
          finalPath(basePictureFolder, presetIndex + 1) \notin DOMAIN files
    /\ \A n \in 1..Len(writeLog) : ~Undecodable(writeLog[n].buffers)

(***************************************************************************)
(* C19: the src a layer is acquired with, through the filter or by         *)
(* download, is the src of its img element with every size token =s<N>     *)
(* turned into =s4096 and everything else kept; a src without such a token *)
(* is used as it is.                                                       *)
(***************************************************************************)
IsDigit(ch) == ch \in Range(Digits)

\* the positions where a size token starts
TokenStarts(s) ==
    {k \in 1..(Len(s) - 2) : s[k] = "=" /\ s[k + 1] = "s" /\ IsDigit(s[k + 2])}

\* the digits of size tokens
TokenDigits(s) ==
    {k \in 1..Len(s) :
        \E m \in TokenStarts(s) : m + 2 <= k /\ \A q \in (m + 2)..k : IsDigit(s[q])}

\* s without the digits of its size tokens
Skeleton(s) ==
    LET kept == (1..Len(s)) \ TokenDigits(s)
    IN  [n \in 1..Cardinality(kept) |->
            s[CHOOSE k \in kept : Cardinality({q \in kept : q <= k}) = n]]

MaxResolution(src, out) ==
    /\ Skeleton(out) = Skeleton(src)
    /\ \A k \in TokenStarts(out) :
          /\ k + 5 <= Len(out)
          /\ SubSeq(out, k, k + 5) = <<"=", "s", "4", "0", "9", "6">>
          /\ k + 6 <= Len(out) => ~IsDigit(out[k + 6])
    /\ TokenStarts(src) = {} => out = src

AcquiredSrc(n) ==
    LET at == events[n].at
    IN  LayersOf(at[1], at[2], at[3], at[4])[at[5]].src.s

\* Stated at the latest acquisition of the log (each acquisition is the
\* latest one in the state it starts in).
C19_MaxResolution ==
    LET n == LastEventOf({"acquire"}, Len(events))
    IN  n > 0 => MaxResolution(AcquiredSrc(n), events[n].info)

C19_Witness ==
    /\ \E n \in 1..Len(events) :
          /\ events[n].kind = "acquire" /\ events[n].what = "download"
          /\ AcquiredSrc(n) = <<"=", "s", "1", "=", "s", "1">>
          /\ events[n].info = <<"=", "s", "4", "0", "9", "6", "=", "s", "4", "0", "9", "6">>
    /\ \E n \in 1..Len(events) :
          /\ events[n].kind = "acquire" /\ events[n].what = "filter"
          /\ events[n].info = <<"=", "s", "4", "0", "9", "6", "=", "s", "4", "0", "9", "6">>

(***************************************************************************)
(* C20: every click on a back control is the one of the view the page      *)
(* shows: Cancel in the preset view, leading to the picture; the third     *)
(* Back button in the picture view, leading to the class; the second Back  *)
(* button in the class view, leading to the collection.                    *)
(***************************************************************************)
BackOfDepth(e, landing) ==
    \/ e.ctl = [control |-> "cancel", ordinal |-> 0]
          /\ e.from = "PresetView" /\ landing = "Picture"
    \/ e.ctl = [control |-> "back", ordinal |-> 2]
          /\ e.from = "Picture" /\ landing = "Class"
    \/ e.ctl = [control |-> "back", ordinal |-> 1]
          /\ e.from = "Class" /\ landing = "Collection"

C20_BackByDepth ==
    [][backLog' # backLog =>
          /\ Len(backLog') = Len(backLog) + 1
          /\ Last(backLog').from = depth
          /\ BackOfDepth(Last(backLog'), depth')]_vars

C20_Witness ==
    /\ \E n \in 1..Len(backLog) : backLog[n].ctl.control = "cancel"
    /\ \E n \in 1..Len(backLog) : backLog[n].ctl.ordinal = 2
    /\ \E n \in 1..Len(backLog) : backLog[n].ctl.ordinal = 1
    /\ depth = "Collection"
    /\ Len(backLog) >= 6

(***************************************************************************)
(* C21: a layer whose style declares a filter is acquired through          *)
(* applyCSSFilterToImage, a layer whose style declares none is downloaded, *)
(* and no layer is acquired twice; when the filter cannot be drawn the run *)
(* ends with status 1 and the layer is neither downloaded nor composited.  *)
(***************************************************************************)
RECURSIVE splitAt(_, _)
splitAt(s, ch) ==
    IF \A j \in DOMAIN s : s[j] # ch THEN <<s>>
    ELSE LET k == CHOOSE j \in DOMAIN s : s[j] = ch /\ \A q \in 1..(j - 1) : s[q] # ch
         IN  <<SubSeq(s, 1, k - 1)>> \o splitAt(SubSeq(s, k + 1, Len(s)), ch)

\* the declarations of a style: property and value of each "property: value"
StyleDeclarations(style) ==
    LET pieces == splitAt(style, ";")
    IN  {[property |-> toLowerCase(trim(Head(splitAt(pieces[j], ":")))),
          value |-> trim(SubSeq(pieces[j], Len(Head(splitAt(pieces[j], ":"))) + 2,
                                Len(pieces[j])))] :
            j \in {q \in DOMAIN pieces : \E m \in DOMAIN pieces[q] : pieces[q][m] = ":"}}

\* the style has a declaration of the property filter with a value
DeclaresFilter(style) ==
    /\ ~style.null
    /\ \E d \in StyleDeclarations(style.s) :
          d.property = <<"f", "i", "l", "t", "e", "r">> /\ d.value # <<>>

LayerAt(ref) == LayersOf(ref[1], ref[2], ref[3], ref[4])[ref[5]]

AcquiredBy(n) == IF DeclaresFilter(LayerAt(events[n].at).style) THEN "filter" ELSE "download"

NoFallbackAfterFilterFailure ==
    failure.step = "applyFilter" =>
       /\ pc = "exited" /\ exitCode = RunErrorStatus
       /\ \A m \in 1..Len(events) :
             /\ events[m].kind = "acquire" /\ events[m].at = CurrentRef
                   => events[m].what = "filter"
             /\ events[m].kind = "composite" => events[m].at # CurrentLeaf
       /\ finalPath(basePictureFolder, presetIndex + 1) \notin DOMAIN files

C21_FilterDispatch ==
    LET n == LastEventOf({"acquire"}, Len(events))
    IN  /\ n > 0 =>
             /\ events[n].what = AcquiredBy(n)
             /\ \A m \in 1..(n - 1) :
                   events[m].kind = "acquire" => events[m].at # events[n].at
        /\ NoFallbackAfterFilterFailure

(***************************************************************************)
(* C22: when the children of a node that was just opened are counted (the  *)
(* pictures of a class, the presets of a picture, the images of a preview) *)
(* a wait for their presence has returned since the click that opened the  *)
(* node; a settle delay alone does not count.                              *)
(***************************************************************************)
\* the click that opens the parent of each counted level
EnterClickOf(level) ==
    CASE level = "pictures" -> "class"
      [] level = "presets" -> "picture"
      [] level = "images" -> "next"
      [] OTHER -> "none"

ReadyBeforeCount(n) ==
    LET c == LastEventOf({"click"}, n)
    IN  /\ c > 0
        /\ events[c].what = EnterClickOf(events[n].what)
        /\ \E m \in (c + 1)..(n - 1) : events[m].kind = "wait"

C22_ReadinessBeforeCount ==
    LET n == LastEventOf({"count"}, Len(events))
    IN  (n > 0 /\ EnterClickOf(events[n].what) # "none") => ReadyBeforeCount(n)

(***************************************************************************)
(* C23: when a node is addressed by its ordinal (a class, a picture or a   *)
(* preset is clicked, the text of a collection is read, an image is        *)
(* acquired), its level has been counted since the last click that opened  *)
(* a node or went back.                                                    *)
(***************************************************************************)
NavigationClicks == {"class", "picture", "next", "cancel", "back"}

\* the level an event addresses a node of, "none" for the other events
LevelAddressed(e) ==
    CASE e.kind = "click" /\ e.what = "class" -> "classes"
      [] e.kind = "click" /\ e.what = "picture" -> "pictures"
      [] e.kind = "click" /\ e.what = "preset" -> "presets"
      [] e.kind = "log" /\ e.what = "collection" -> "collections"
      [] e.kind = "acquire" -> "images"
      [] OTHER -> "none"

CountsBefore(level, n) ==
    {m \in 1..(n - 1) : events[m].kind = "count" /\ events[m].what = level}

FreshlyCounted(n) ==
    LET counts == CountsBefore(LevelAddressed(events[n]), n)
    IN  /\ counts # {}
        /\ LET m == CHOOSE x \in counts : \A y \in counts : y <= x
           IN  \A q \in (m + 1)..(n - 1) :
                  ~(events[q].kind = "click" /\ events[q].what \in NavigationClicks)

C23_EnumeratedSinceNavigation ==
    LET n == LastEventOf({"click", "log", "acquire"}, Len(events))
    IN  (n > 0 /\ LevelAddressed(events[n]) # "none") => FreshlyCounted(n)

(***************************************************************************)
(* C24: from the click that selects a preset to the Cancel that leaves its *)
(* preview the selected preset is the one the loop is at, so the layers    *)
(* acquired for <picture>_<i>.jpg are those of the i-th preset; the steps  *)
(* of one preset happen in the order select, Next, acquire, composite,     *)
(* write, Cancel, each of select, Next, composite and Cancel once, and no  *)
(* step of another preset comes in between.                                *)
(***************************************************************************)
PresetSteps == {"downloadPreset", "images", "transfer", "readBack", "cancel"}

StepRank(e) ==
    CASE e.kind = "click" /\ e.what = "preset" -> 1
      [] e.kind = "click" /\ e.what = "next" -> 2
      [] e.kind \in {"sleep", "wait", "count"} -> 3
      [] e.kind \in {"acquire", "acquired"} -> 4
      [] e.kind = "composite" -> 5
      [] e.kind = "write" -> 6
      [] e.kind = "click" /\ e.what = "cancel" -> 7
      [] OTHER -> 0

OfLeaf(e, leaf) == Len(e.at) >= 4 /\ SubSeq(e.at, 1, 4) = leaf

C24_OnePresetAtATime ==
    /\ pc \in PresetSteps =>
          /\ cursor.pre = presetIndex + 1
          /\ cursor.pre \in DOMAIN PresetsOf(cursor.col, cursor.cls, cursor.pic)
    /\ (events # <<>> /\ Len(Last(events).at) >= 4) => OfLeaf(Last(events), CurrentLeaf)
    /\ cursor.pre > 0 =>
          LET mine == {n \in 1..Len(events) : OfLeaf(events[n], CurrentLeaf)}
          IN  /\ \A n \in mine : StepRank(events[n]) > 0
              /\ \A n, m \in mine :
                    n < m => /\ StepRank(events[n]) <= StepRank(events[m])
                             /\ StepRank(events[n]) \in {1, 2, 5, 6, 7}
                                   => StepRank(events[n]) < StepRank(events[m])
              /\ \A n, m \in mine : \A q \in n..m : q \in mine
    /\ \A n \in 1..Len(writeLog) :
          /\ writeLog[n].path = finalPath(SubSeq(writeLog[n].path, 1, Len(writeLog[n].path) - 1),
                                          writeLog[n].at[4])
          /\ \A b \in 1..Len(writeLog[n].buffers) :
                SubSeq(writeLog[n].buffers[b].of, 1, 4) = writeLog[n].at

C24_Witness ==
    /\ pc = "presets"
    /\ presetIndex = 2
    /\ cursor.pre = 2
    /\ Len(writeLog) = 2
    /\ Len(writeLog[2].buffers) >= 2
    /\ writeLog[1].at[4] = 1 /\ writeLog[2].at[4] = 2
    /\ Last(events).what = "cancel"

(***************************************************************************)
(* C25: the buffers collected for a preset are those of its layers with a  *)
(* src, in the order of the layers in the preview, so the first buffer is  *)
(* the first layer with a src; a layer is acquired only after the          *)
(* acquisition of the layer before it has returned; the buffers handed to  *)
(* the composite are in that order.                                        *)
(***************************************************************************)
\* the layers with a src among the first k layers of a preview, in order
RECURSIVE SrcLayers(_, _)
SrcLayers(leaf, k) ==
    IF k = 0 THEN <<>>
    ELSE SrcLayers(leaf, k - 1) \o
         (IF k \in LayersWithSrc(leaf) THEN <<k>> ELSE <<>>)

LayerOf(buffers) == [n \in DOMAIN buffers |-> buffers[n].of[5]]

Acquisitions(leaf) ==
    SelectSeq(events, LAMBDA e : OfLeaf(e, leaf) /\ e.kind \in {"acquire", "acquired"})

OneAtATime(acq) ==
    \A n \in DOMAIN acq :
       /\ acq[n].kind = IF n % 2 = 1 THEN "acquire" ELSE "acquired"
       /\ n % 2 = 0 => acq[n].at = acq[n - 1].at
       /\ n > 2 => acq[n].at[5] > acq[n - 2].at[5]

C25_LayerOrder ==
    /\ pc \in {"images", "transfer", "readBack", "cancel"} =>
          /\ LayerOf(processedImages) = SrcLayers(CurrentLeaf, i)
          /\ \A n \in DOMAIN processedImages :
                SubSeq(processedImages[n].of, 1, 4) = CurrentLeaf
          /\ OneAtATime(Acquisitions(CurrentLeaf))
    /\ \A n \in 1..Len(writeLog) :
          LayerOf(writeLog[n].buffers) =
             SrcLayers(writeLog[n].at,
                       Len(LayersOf(writeLog[n].at[1], writeLog[n].at[2],
                                    writeLog[n].at[3], writeLog[n].at[4])))

C25_Witness ==
    /\ pc = "cancel"
    /\ imageCount = 3
    /\ LayerOf(processedImages) = <<1, 3>>
    /\ LayerOf(Last(writeLog).buffers) = <<1, 3>>
    /\ Len(Acquisitions(CurrentLeaf)) = 4

(***************************************************************************)
(* C26: no step waits for ever, and a raw download settles whatever the    *)
(* transfer does: when the request, the response or the write of the       *)
(* transient file fails, downloadImage rejects and the rejection reaches   *)
(* the catch of main.                                                      *)
(***************************************************************************)
TransferOutcomes == {"url", "request", "response", "write"}

C26_EverySuspensionSettles ==
    /\ pc # "hung"
    /\ failure.step \in TransferOutcomes => failure.caught /\ pc = "exited"

(***************************************************************************)
(* C27: a run in which no step fails (none rejects, none stays pending for *)
(* ever) ends: it reaches the end of the try block with every collection   *)
(* processed and every leaf of the menu composited, and exits with 0.      *)
(***************************************************************************)
NoStepFails == failure = NoFailure /\ pc # "hung"

AllProcessed ==
    /\ Completed
    /\ collectionIndex = Len(menu)
    /\ visited = LeafSeq

C27_Terminates == []NoStepFails => <>AllProcessed

C27_Witness ==
    /\ AllProcessed
    /\ Len(menu) = MaxCol
    /\ Len(LeafSeq) = MaxCol * MaxCls * MaxPic * MaxPre

(***************************************************************************)
(* C28: an artifact that was written is still on the disk, with the        *)
(* content it was written with, at every later point of the run, and no    *)
(* transient download file of the picture folder has the path of an        *)
(* artifact that was written.                                              *)
(***************************************************************************)
ArtifactKept(n) ==
    /\ writeLog[n].path \in DOMAIN files
    /\ files[writeLog[n].path] = writeLog[n].content

TransientPaths == {tempPath(basePictureFolder, l) : l \in 0..MaxLay}

C28_ArtifactsNeverTouched ==
    /\ \A n \in 1..Len(writeLog) : ArtifactKept(n)
    /\ \A n \in 1..Len(writeLog) : writeLog[n].path \notin TransientPaths

(***************************************************************************)
(* C29: the names of the navigation path change only at the step that      *)
(* enters their level: the collection name when a collection is entered,   *)
(* the class name when a class is entered, the picture name and the        *)
(* picture folder when a picture is entered; no name changes when a        *)
(* picture is left.  Selecting a preset, acquiring layers, compositing and  *)
(* cancelling leave names and folder unchanged, and the artifacts of one   *)
(* picture are all written into the folder made when it was entered.       *)
(***************************************************************************)
NavigationPath == <<collectionName, pictureClassName, pictureName>>

FolderOf(path) == SubSeq(path, 1, Len(path) - 1)

\* stated for the artifact written last: each artifact is the last one in
\* the state it is written in
SameFolder ==
    LET n == Len(writeLog)
    IN  n > 0 =>
          /\ pc = "cancel" =>
                /\ FolderOf(writeLog[n].path) = basePictureFolder
                /\ writeLog[n].names = NavigationPath
          /\ \A m \in 1..n :
                SubSeq(writeLog[m].at, 1, 3) = SubSeq(writeLog[n].at, 1, 3) =>
                   FolderOf(writeLog[m].path) = FolderOf(writeLog[n].path)

PresetLevelStep ==
    pc \in {"presets", "images", "transfer", "readBack", "cancel"} /\ presetIndex < presetCount

PresetStepsKeepPath ==
    PresetLevelStep =>
       /\ NavigationPath' = NavigationPath
       /\ basePictureFolder' = basePictureFolder

C29_PathFrame ==
    [][/\ collectionName' # collectionName => CollectionLoop
       /\ pictureClassName' # pictureClassName => ClassLoop
       /\ pictureName' # pictureName => PictureLoop
       /\ basePictureFolder' # basePictureFolder => PictureLoop
       /\ PresetStepsKeepPath
       /\ SameFolder']_vars

\* the statement with every change of the path at the entry or the exit of
\* a picture
C29_PathOnlyAtPicture ==
    [][/\ NavigationPath' # NavigationPath => (PictureLoop \/ PresetsDone)
       /\ PresetStepsKeepPath
       /\ SameFolder']_vars

\* both presets of the second picture of a class written and cancelled, the
\* first picture's artifacts in another folder
C29_Witness ==
    /\ pc = "presets"
    /\ presetIndex = 2
    /\ cursor.pic = 2
    /\ Len(writeLog) >= 4
    /\ LET n == Len(writeLog)
       IN  /\ SubSeq(writeLog[n - 1].at, 1, 3) = SubSeq(writeLog[n].at, 1, 3)
           /\ FolderOf(writeLog[n - 1].path) = FolderOf(writeLog[n].path)
           /\ writeLog[n - 1].path # writeLog[n].path
           /\ FolderOf(writeLog[n - 2].path) # FolderOf(writeLog[n].path)

(***************************************************************************)
(* C30: on the same page, with the same menu and the same step outcomes,   *)
(* the typed and the runtime variant take the same iframe for the menu,    *)
(* find the same collections to traverse (and so navigate, acquire,        *)
(* composite and write the same), end the same way and fail at the same    *)
(* step.                                                                   *)
(***************************************************************************)
BothDone == twin.stage = "on" /\ \A v \in Variants : twin.run[v].at = "done"

C30_VariantsAgree ==
    BothDone => twin.run["typed"] = twin.run["runtime"]

(***************************************************************************)
(* C31: once the menu is open the view the page shows is one of            *)
(* Collection, Class, Picture and PresetView, and it is the one the        *)
(* position of main expects: a class is opened from the Collection view, a *)
(* picture from the Class view, a preset and its preview from the Picture  *)
(* view, the layers are read in the PresetView; at the head of the         *)
(* collection loop, after the last class of a collection, and when the run *)
(* has completed, the page shows the Collection view again.                *)
(***************************************************************************)
MenuDepths == {"Collection", "Class", "Picture", "PresetView"}

\* the view in which main issues the step of each position
DepthAt(at) ==
    CASE at \in {"collections", "classes"} -> "Collection"
      [] at = "pictures" -> "Class"
      [] at \in {"presets", "downloadPreset"} -> "Picture"
      [] OTHER -> "PresetView"

TraversalPositions ==
    {"collections", "classes", "pictures", "presets", "downloadPreset",
     "images", "transfer", "readBack", "cancel"}

C31_DepthInvariant ==
    /\ depth \in MenuDepths \cup {"Root"}
    /\ depth = "Root" =>
          /\ pc \notin TraversalPositions
          /\ visited = <<>> /\ backLog = <<>>
          /\ ~Completed
    /\ pc \in TraversalPositions => depth = DepthAt(pc)
    /\ Completed => depth = "Collection"

\* a completed run over two collections: the classes of the second one were
\* opened after the last class of the first
C31_Witness ==
    /\ Completed
    /\ depth = "Collection"
    /\ Len(menu) = 2
    /\ visited # <<>>
    /\ Head(visited)[1] = 1
    /\ Last(visited)[1] = 2
    /\ Last(visited)[2] = 2

====
